---- MODULE Spec2Model ----
(***************************************************************************)
(* Plan caching and parameter deduction of the MatX transform wrappers     *)
(* (fft/ifft/fft2/ifft2, matmul, chol, lu, qr, svd, eig).                  *)
(*                                                                         *)
(* A behaviour fixes two calls of one transform family (`calls`) and then  *)
(* lets host threads dispatch them, in any order and any number of times,  *)
(* against the family's static plan cache.                                 *)
(***************************************************************************)
EXTENDS Integers, Sequences, FiniteSets, TLC

VARIABLES
  calls,    \* <<c1, c2>>: the two calls the behaviour dispatches
  cache,    \* cache name -> sequence of entries [key, plan]
  plans,    \* every plan object whose constructor completed
  th,       \* thread -> the locals of its dispatch call in progress
  deduced,  \* call index -> descriptors deduced for that call so far
  execlog,  \* successful executions: [call, params, plan]
  allocationMap,    \* registered pointer -> [size, kind, stream]
  matxMemoryStats,  \* the three byte counters of the allocator
  memory_mtx,       \* the thread that owns the allocator mutex, or "none"
  heap,             \* addresses the vendor allocator has handed out and not freed
  ath,              \* thread -> the locals of its allocator call in progress
  launch,      \* the kernel launch and the block observed: [size, blockIdx]
  shm_tile,    \* the block's shared tile: cell -> [val, by]
  transposed,  \* the kernel's out tensor: index -> [val, by, src]
  kth          \* threadIdx -> position of that thread in the kernel

\* the state of the transform wrappers and the state of the allocator
dvars == <<calls, cache, plans, th, deduced, execlog>>
avars == <<allocationMap, matxMemoryStats, memory_mtx, heap, ath>>
kvars == <<launch, shm_tile, transposed, kth>>
vars == <<dvars, avars, kvars>>

(***************************************************************************)
(* Bounds of the model.                                                    *)
(***************************************************************************)
DimM == 2
DimK == 3
DimN == 4
NumStreams == 2
MaxTab == 2                   \* entries kept of a plan's growing pointer tables
MaxPtr == 2                   \* the vendor's base addresses are 2, 4 .. 2 * MaxPtr
MaxAlloc == 2                 \* bytes one thread allocates over a behaviour

Threads == {"t1", "t2"}
Streams == 0..(NumStreams - 1)
ScratchPtrs == {100, 101}     \* addresses the allocator may hand out
Garbage == {0, 1}             \* contents an unset MatMulParams_t may hold
UninitOp(g) == IF g = 0 THEN "N" ELSE "T"

(***************************************************************************)
(* Program constants.                                                      *)
(***************************************************************************)
PROVIDER_TYPE_CUTLASS == 0
PROVIDER_TYPE_CUBLASLT == 2

(***************************************************************************)
(* Tensor views: size and stride per dimension (index 1 is the outermost,  *)
(* index Rank(v) the fastest changing one) and a data pointer.             *)
(***************************************************************************)
RECURSIVE ProdFrom(_, _)
ProdFrom(s, d) == IF d > Len(s) THEN 1 ELSE s[d] * ProdFrom(s, d + 1)

Rank(v) == Len(v.size)
Size(v, d) == v.size[d + 1]          \* Size(d) with the C++ 0-based index
Stride(v, d) == v.stride[d + 1]      \* Stride(d) with the C++ 0-based index
Lsize(v) == v.size[Len(v.size)]
TotalSize(s) == ProdFrom(s, 1)

ContigStrides(s) == [d \in 1..Len(s) |-> ProdFrom(s, d + 1)]

MkView(s, p) == [size |-> s, stride |-> ContigStrides(s), data |-> p]

SwapLast2(s) ==
  [d \in 1..Len(s) |->
     IF d = Len(s) THEN s[Len(s) - 1]
     ELSE IF d = Len(s) - 1 THEN s[Len(s)]
     ELSE s[d]]

\* tensor_t::Permute / PermuteMatrix on the two innermost dimensions
PermuteMatrix(v) ==
  [size |-> SwapLast2(v.size), stride |-> SwapLast2(v.stride), data |-> v.data]

\* tensor_t::Slice with starts = 0 and ends = matxEnd except the last one
SliceLast(v, end) ==
  [v EXCEPT !.size = [v.size EXCEPT ![Len(v.size)] = end]]

(***************************************************************************)
(* Element types.                                                          *)
(***************************************************************************)
IsComplexHalf(t) == t \in {"c16", "cbf16"}
IsHalf(t) == t \in {"f16", "bf16"}

\* cudaDataType values, as std::hash<index_t> sees them
CudaTypeCode(t) ==
  CASE t = "CUDA_R_32F" -> 0
    [] t = "CUDA_R_64F" -> 1
    [] t = "CUDA_R_16F" -> 2
    [] t = "CUDA_C_16F" -> 6
    [] t = "CUDA_C_32F" -> 4
    [] t = "CUDA_C_64F" -> 5
    [] t = "CUDA_R_16BF" -> 14
    [] t = "CUDA_C_16BF" -> 15

GetIOType(t) ==
  CASE t = "c16" -> "CUDA_C_16F"
    [] t = "cbf16" -> "CUDA_C_16BF"
    [] t = "f16" -> "CUDA_R_16F"
    [] t = "bf16" -> "CUDA_R_16BF"
    [] t = "c32" -> "CUDA_C_32F"
    [] t = "c64" -> "CUDA_C_64F"
    [] t = "f32" -> "CUDA_R_32F"
    [] t = "f64" -> "CUDA_R_64F"
    [] OTHER -> "CUDA_C_32F"

GetExecType(t1, t2) ==
  LET it == GetIOType(t2)
      ot == GetIOType(t1)
  IN  IF it = "CUDA_C_16F" \/ ot = "CUDA_C_16F" THEN "CUDA_C_16F"
      ELSE IF it = "CUDA_C_16BF" \/ ot = "CUDA_C_16BF" THEN "CUDA_C_16BF"
      ELSE IF it = "CUDA_C_32F" \/ ot = "CUDA_C_32F" THEN "CUDA_C_32F"
      ELSE "CUDA_C_64F"

\* "none" stands for the MATX_THROW at the end of the function
DeduceFFTTransformType(t1, t2) ==
  IF t1 = "c32" THEN
       (IF t2 = "c32" THEN "CUFFT_C2C" ELSE IF t2 = "f32" THEN "CUFFT_R2C" ELSE "none")
  ELSE IF t1 = "f32" /\ t2 = "c32" THEN "CUFFT_C2R"
  ELSE IF t1 = "c64" THEN
       (IF t2 = "c64" THEN "CUFFT_Z2Z" ELSE IF t2 = "f64" THEN "CUFFT_D2Z" ELSE "none")
  ELSE IF t1 = "f64" /\ t2 = "c64" THEN "CUFFT_Z2D"
  ELSE IF IsComplexHalf(t1) THEN
       (IF IsComplexHalf(t2) THEN "CUFFT_C2C" ELSE "none")
  ELSE IF IsHalf(t1) /\ IsComplexHalf(t2) THEN "CUFFT_C2R"
  ELSE "none"

IsPow2(n) == n \in {0, 1, 2, 4, 8, 16, 32, 64}

(***************************************************************************)
(* FFT: input view selection and parameter deduction.                      *)
(***************************************************************************)
IsR2C(t1, t2) ==
  \/ t2 = "f32" /\ t1 = "c32"
  \/ t2 = "f64" /\ t1 = "c64"
  \/ t2 = "bf16" /\ t1 = "cbf16"
  \/ t2 = "f16" /\ t1 = "c16"

IsC2R(t1, t2) == IsR2C(t2, t1)

NomFftSize(c) ==
  IF IsR2C(c.t1, c.t2) THEN Lsize(c.a) \div 2 + 1
  ELSE IF IsC2R(c.t1, c.t2) THEN (Lsize(c.a) - 1) * 2
  ELSE Lsize(c.a)

ActFftSize(c) ==
  IF IsR2C(c.t1, c.t2) THEN (Lsize(c.o) - 1) * 2
  ELSE IF IsC2R(c.t1, c.t2) THEN (Lsize(c.o) \div 2) + 1
  ELSE Lsize(c.o)

\* the view fft/ifft hand on; tp is the address matxAlloc returns when padding
GetFFTInputView(c, tp) ==
  IF NomFftSize(c) # ActFftSize(c)
  THEN IF ActFftSize(c) < NomFftSize(c)
       THEN SliceLast(c.a, NomFftSize(c))
       ELSE MkView([c.a.size EXCEPT ![Rank(c.a)] = ActFftSize(c)], tp)
  ELSE c.a

FftPads(c) == NomFftSize(c) # ActFftSize(c) /\ ~(ActFftSize(c) < NomFftSize(c))

\* sizeof of an element type, in bytes
SizeOf(t) ==
  CASE t \in {"f16", "bf16"} -> 2
    [] t \in {"f32", "c16", "cbf16"} -> 4
    [] t \in {"f64", "c32"} -> 8
    [] t = "c64" -> 16

\* One row of a buffer along the last dimension.  The caller's input row holds
\* the distinct non-zero values 1..n; 0 is the zero element and Clobbered
\* stands for an element outside the allocation.
Clobbered == -1
InputRow(i) == [j \in 1..Lsize(i) |-> j]
ZeroFill(n) == [j \in 1..n |-> 0]
CopyInto(dst, src) ==
  [j \in 1..Len(dst) |-> IF j <= Len(src) THEN src[j] ELSE dst[j]]

\* elements of type T2 that fit into the sizeof(T1) * TotalSize bytes allocated
\* for a padded row of n elements
PadCapacity(c, n) == (SizeOf(c.t1) * n) \div SizeOf(c.t2)

\* the padded row GetFFTInputView leaves behind: zero fill, then the copy of
\* the input; writes past the allocation are undefined
PadBuffers(c) ==
  IF ~(c.op \in {"fft", "ifft"} /\ FftPads(c)) THEN { <<>> }
  ELSE LET n == ActFftSize(c)
           row == CopyInto(ZeroFill(n), InputRow(c.a))
       IN  IF PadCapacity(c, n) >= n THEN { row }
           ELSE { row,
                  [j \in 1..n |-> IF j <= PadCapacity(c, n) THEN row[j]
                                  ELSE Clobbered] }

GetFFTParams(t1, t2, o, i, fft_rank) ==
  LET tt == DeduceFFTTransformType(t1, t2)
      c2r == tt \in {"CUFFT_C2R", "CUFFT_Z2D"}
      R == Rank(o)
      base == [transform_type |-> tt,
               input_type |-> GetIOType(t2),
               output_type |-> GetIOType(t1),
               exec_type |-> GetExecType(t1, t2),
               stream |-> 0]
  IN  IF fft_rank = 1 THEN
        IF R = 1 THEN
          base @@ [n |-> <<(IF c2r THEN Size(o, 0) ELSE Size(i, 0)), 0>>,
                   fft_rank |-> 1, batch |-> 1,
                   inembed |-> <<Size(i, 0), 0>>, onembed |-> <<Size(o, 0), 0>>,
                   istride |-> Stride(i, 0), ostride |-> Stride(o, 0),
                   idist |-> Size(i, 0), odist |-> Size(o, 0)]
        ELSE
          base @@ [n |-> <<(IF c2r THEN Size(o, R - 1) ELSE Size(i, R - 1)), 0>>,
                   fft_rank |-> 1, batch |-> Size(i, R - 2),
                   inembed |-> <<Size(i, R - 1), 0>>,
                   onembed |-> <<Size(o, R - 1), 0>>,
                   istride |-> Stride(i, R - 1), ostride |-> Stride(o, R - 1),
                   idist |-> Stride(i, R - 2), odist |-> Stride(o, R - 2)]
      ELSE
          base @@ [n |-> (IF c2r THEN <<Size(o, R - 1), Size(o, R - 2)>>
                          ELSE <<Size(i, R - 1), Size(i, R - 2)>>),
                   batch |-> (IF R = 2 THEN 1
                              ELSE IF R = 3 THEN Size(i, 0)
                              ELSE Size(i, 0) * Size(i, 1)),
                   fft_rank |-> 2,
                   inembed |-> <<0, Size(o, R - 1)>>,
                   onembed |-> <<0, Size(i, R - 1)>>,
                   istride |-> Stride(i, R - 1), ostride |-> Stride(o, R - 1),
                   idist |-> Size(i, R - 2) * Size(i, R - 1),
                   odist |-> Size(o, R - 2) * Size(o, R - 1)]

\* the power-of-two check of GetFFTParams for half precision
FftParamsThrow(t1, p) ==
  /\ IsComplexHalf(t1)
  /\ IF p.fft_rank = 1 THEN ~IsPow2(p.n[1])
     ELSE ~IsPow2(p.n[1]) \/ ~IsPow2(p.n[2])

HashIndex(x) == x                    \* std::hash<index_t> on an integer

FftParamsKeyHash(k) ==
  HashIndex(k.n[1]) + HashIndex(k.n[2]) + HashIndex(k.fft_rank) +
  HashIndex(CudaTypeCode(k.exec_type)) + HashIndex(k.batch) +
  HashIndex(k.istride) + HashIndex(k.stream)

FftParamsKeyEq(l, t) ==
  /\ l.n[1] = t.n[1] /\ l.n[2] = t.n[2] /\ l.batch = t.batch
  /\ l.fft_rank = t.fft_rank /\ l.stream = t.stream
  /\ l.inembed[1] = t.inembed[1] /\ l.inembed[2] = t.inembed[2]
  /\ l.onembed[1] = t.onembed[1] /\ l.onembed[2] = t.onembed[2]
  /\ l.istride = t.istride /\ l.ostride = t.ostride
  /\ l.idist = t.idist /\ l.odist = t.odist
  /\ l.transform_type = t.transform_type
  /\ l.input_type = t.input_type /\ l.output_type = t.output_type
  /\ l.exec_type = t.exec_type

(***************************************************************************)
(* GEMM: parameter deduction, hash and equality.                           *)
(***************************************************************************)
\* how GetGemmParams reads one operand for cuBLASLt; an operand whose two
\* innermost strides both differ from 1 matches neither branch, and op and ld
\* keep whatever the uninitialised struct holds (g)
GemmOperandSet(v) ==
  LET R == Rank(v) IN
  IF Stride(v, R - 1) = 1
  THEN {[op |-> "N", rows |-> Size(v, R - 2), cols |-> Size(v, R - 1),
         ld |-> Stride(v, R - 2)]}
  ELSE IF Stride(v, R - 2) = 1
  THEN {[op |-> "T", rows |-> Size(v, R - 1), cols |-> Size(v, R - 2),
         ld |-> Stride(v, R - 1)]}
  ELSE {[op |-> UninitOp(g), rows |-> 0, cols |-> 0, ld |-> g] : g \in Garbage}

GetGemmParams(t1, prov, c, a, b) ==
  LET R == Rank(a)
      swap == Stride(c, R - 2) = 1 /\ Size(c, R - 1) # 1
      a_comp == IF swap THEN PermuteMatrix(b) ELSE a
      b_comp == IF swap THEN PermuteMatrix(a) ELSE b
      c_comp == IF swap THEN PermuteMatrix(c) ELSE c
      batch == IF R >= 3 THEN Size(a, R - 3) ELSE 1
  IN  IF prov = PROVIDER_TYPE_CUBLASLT
      THEN {[a_rows |-> pa.rows, a_cols |-> pa.cols,
             b_rows |-> pb.rows, b_cols |-> pb.cols,
             c_rows |-> pa.rows, c_cols |-> pb.cols,
             m |-> 0, n |-> 0, k |-> 0,
             lda |-> pa.ld, ldb |-> pb.ld, ldc |-> Stride(c_comp, R - 2),
             batch |-> batch, prov |-> prov, stream |-> 0, dtype |-> t1,
             opA |-> pa.op, opB |-> pb.op] :
              pa \in GemmOperandSet(a_comp), pb \in GemmOperandSet(b_comp)}
      ELSE {[a_rows |-> 0, a_cols |-> 0, b_rows |-> 0, b_cols |-> 0,
             c_rows |-> 0, c_cols |-> 0,
             m |-> Size(a_comp, R - 2), n |-> Size(b_comp, R - 1),
             k |-> Size(a_comp, R - 1),
             lda |-> Stride(a_comp, R - 2), ldb |-> Stride(b_comp, R - 2),
             ldc |-> Stride(c_comp, R - 2),
             batch |-> batch, prov |-> prov, stream |-> 0, dtype |-> t1,
             opA |-> "N", opB |-> "N"]}

MatMulParamsKeyHash(k) ==
  HashIndex(k.m) + HashIndex(k.n) + HashIndex(k.k) + HashIndex(k.batch) +
  HashIndex(k.prov) + HashIndex(k.stream)

MatMulParamsKeyEq(l, t) ==
  /\ l.m = t.m /\ l.n = t.n /\ l.k = t.k /\ l.a_rows = t.a_rows
  /\ l.b_rows = t.b_rows /\ l.c_rows = t.c_rows
  /\ l.a_cols = t.a_cols /\ l.b_cols = t.b_cols
  /\ l.c_cols = t.c_cols /\ l.stream = t.stream /\ l.lda = t.lda
  /\ l.ldb = t.ldb /\ l.ldc = t.ldc /\ l.batch = t.batch
  /\ l.prov = t.prov /\ l.dtype = t.dtype /\ l.opA = t.opA
  /\ l.opB = t.opB

(***************************************************************************)
(* Dense solvers: parameter deduction, hash and equality.                  *)
(***************************************************************************)
RECURSIVE ProdUpto(_, _)
ProdUpto(s, d) == IF d < 1 THEN 1 ELSE s[d] * ProdUpto(s, d - 1)

GetNumBatches(a) == ProdUpto(a.size, Rank(a) - 2)

\* the view TransposeCopy builds on the scratch buffer tp
TransposeCopy(tp, a) == MkView(SwapLast2(a.size), tp)

\* Buffers are sequences of element values addressed by 0-based element
\* offset; the caller's matrix holds the distinct values 1..TotalSize.
RECURSIVE DotFrom(_, _, _)
DotFrom(x, y, d) == IF d > Len(x) THEN 0 ELSE x[d] * y[d] + DotFrom(x, y, d + 1)

Offset(v, idx) == DotFrom(idx, v.stride, 1)
Indices(s) ==
  { idx \in [1..Len(s) -> 0..(DimN + 1)] : \A d \in 1..Len(s) : idx[d] < s[d] }
ReadAt(v, buf, idx) == buf[Offset(v, idx) + 1]
InputBuf(a) == [j \in 1..TotalSize(a.size) |-> j]

\* copy(dst, src): element idx of dst receives element idx of src; dst is
\* a contiguous view of its buffer
CopyBuf(dst, src, srcbuf) ==
  [j \in 1..TotalSize(dst.size) |->
     LET idx == [d \in 1..Len(dst.size) |->
                   ((j - 1) \div dst.stride[d]) % dst.size[d]]
     IN  ReadAt(src, srcbuf, idx)]

\* a TransposeCopy that copies a without permuting it
TransposeCopyBuf_Plain(tp, a, abuf) == CopyBuf(MkView(a.size, tp), a, abuf)

\* the contents of the scratch buffer after TransposeCopy
TransposeCopyBuf(tp, a, abuf) ==
  CopyBuf(TransposeCopy(tp, a), PermuteMatrix(a), abuf)

\* copy(out, tv.PermuteMatrix()) at the end of chol, lu, qr and eig
FinalCopy(out, tp, a, tpbuf) ==
  CopyBuf(out, PermuteMatrix(TransposeCopy(tp, a)), tpbuf)

GetCholParams(t1, a, uplo) ==
  [batch_size |-> GetNumBatches(a), n |-> Size(a, Rank(a) - 1),
   A |-> a.data, uplo |-> uplo, dtype |-> t1]

\* a hash that also mixes in the matrix pointer the struct carries
DnCholParamsKeyHash_A(k) ==
  HashIndex(k.n) + HashIndex(k.batch_size) + HashIndex(k.A)

DnCholParamsKeyHash(k) == HashIndex(k.n) + HashIndex(k.batch_size)

DnCholParamsKeyEq(l, t) ==
  l.n = t.n /\ l.batch_size = t.batch_size /\ l.dtype = t.dtype

GetLUParams(t1, piv, a) ==
  [batch_size |-> GetNumBatches(a), m |-> Size(a, Rank(a) - 2),
   n |-> Size(a, Rank(a) - 1), A |-> a.data, piv |-> piv, dtype |-> t1]

\* a hash that also mixes in the pivot pointer the struct carries
DnLUParamsKeyHash_Piv(k) ==
  HashIndex(k.m) + HashIndex(k.n) + HashIndex(k.batch_size) + HashIndex(k.piv)

DnLUParamsKeyHash(k) ==
  HashIndex(k.m) + HashIndex(k.n) + HashIndex(k.batch_size)

DnLUParamsKeyEq(l, t) ==
  l.n = t.n /\ l.m = t.m /\ l.batch_size = t.batch_size /\ l.dtype = t.dtype

GetQRParams(t1, tau, a) ==
  [batch_size |-> GetNumBatches(a), m |-> Size(a, Rank(a) - 2),
   n |-> Size(a, Rank(a) - 1), A |-> a.data, tau |-> tau, dtype |-> t1]

DnQRParamsKeyHash(k) ==
  HashIndex(k.m) + HashIndex(k.n) + HashIndex(k.batch_size)

DnQRParamsKeyEq(l, t) ==
  l.n = t.n /\ l.m = t.m /\ l.batch_size = t.batch_size /\ l.dtype = t.dtype

GetSVDParams(t1, u, s, v, a, jobu, jobvt) ==
  [batch_size |-> GetNumBatches(a), m |-> Size(a, Rank(a) - 2),
   n |-> Size(a, Rank(a) - 1), A |-> a.data, U |-> u.data, V |-> v.data,
   S |-> s, jobu |-> jobu, jobvt |-> jobvt, dtype |-> t1]

DnSVDParamsKeyHash(k) ==
  HashIndex(k.m) + HashIndex(k.n) + HashIndex(k.batch_size)

DnSVDParamsKeyEq(l, t) ==
  /\ l.n = t.n /\ l.m = t.m /\ l.jobu = t.jobu /\ l.jobvt = t.jobvt
  /\ l.batch_size = t.batch_size /\ l.dtype = t.dtype

GetEigParams(t1, w, a, jobz, uplo) ==
  [batch_size |-> GetNumBatches(a), m |-> Size(a, Rank(a) - 1),
   A |-> a.data, W |-> w, jobz |-> jobz, uplo |-> uplo, dtype |-> t1]

\* a hash that also mixes in the eigenvalue pointer the struct carries
DnEigParamsKeyHash_W(k) ==
  HashIndex(k.m) + HashIndex(k.batch_size) + HashIndex(k.W)

DnEigParamsKeyHash(k) == HashIndex(k.m) + HashIndex(k.batch_size)

DnEigParamsKeyEq(l, t) ==
  l.m = t.m /\ l.batch_size = t.batch_size /\ l.dtype = t.dtype

(***************************************************************************)
(* The calls of a behaviour.  A call is one invocation of a dispatch       *)
(* function: its template arguments (op, prov, t1..t3, the views' ranks),  *)
(* its views and its flags.  o is the output (o, c, out or u), a the input *)
(* (i or a), b the second operand (B of matmul, v of svd), aux the data    *)
(* pointer of piv, tau, w or s.                                            *)
(***************************************************************************)
FftOps == {"fft", "ifft", "fft2", "ifft2"}
SolverOps == {"chol", "lu", "qr", "svd", "eig"}
Families == {"fft", "matmul"} \cup SolverOps

NoView == MkView(<<1>>, 0)

\* a view of sizes s in one of the layouts a caller can build
Layout(l, s, p) ==
  LET R == Len(s) IN
  CASE l = "row" -> MkView(s, p)
    [] l = "col" -> PermuteMatrix(MkView(SwapLast2(s), p))
    [] l = "affine" ->
         [size |-> s, stride |-> [d \in 1..R |-> 2 * ContigStrides(s)[d]],
          data |-> p]
    [] l = "pad" ->
         [size |-> s,
          stride |-> ContigStrides([s EXCEPT ![R] = s[R] + 1]),
          data |-> p]

FftCall(f) ==
  [op |-> f.op, prov |-> PROVIDER_TYPE_CUBLASLT,
   t1 |-> f.t1, t2 |-> f.t2, t3 |-> "none",
   o |-> MkView(f.osz, f.ptr + 3), a |-> Layout(f.la, f.isz, f.ptr + 1),
   b |-> NoView, aux |-> 0, stream |-> f.stream, tp |-> f.tp,
   uplo |-> "U", jobz |-> "V", jobu |-> "A", jobvt |-> "A"]

GemmCall(g) ==
  [op |-> "matmul", prov |-> g.prov,
   t1 |-> g.t1, t2 |-> g.t2, t3 |-> g.t3,
   o |-> Layout(g.lc, g.oc \o <<g.cm, g.cn>>, g.ptr + 3),
   a |-> Layout(g.la, g.outer \o <<g.m, g.k>>, g.ptr + 1),
   b |-> Layout(g.lb, g.ob \o <<g.kb, g.n>>, g.ptr + 2),
   aux |-> 0, stream |-> g.stream, tp |-> g.tp,
   uplo |-> "U", jobz |-> "V", jobu |-> "A", jobvt |-> "A"]

SolverCall(q) ==
  [op |-> q.op, prov |-> PROVIDER_TYPE_CUBLASLT,
   t1 |-> q.t1, t2 |-> q.t1, t3 |-> q.t1,
   o |-> MkView(q.outer \o <<q.m, q.n>>, IF q.alias THEN q.ptr + 1 ELSE q.ptr + 3),
   a |-> MkView(q.outer \o <<q.m, q.n>>, q.ptr + 1),
   b |-> MkView(q.outer \o <<q.n, q.n>>, q.ptr + 2),
   aux |-> q.ptr + 4, stream |-> q.stream, tp |-> q.tp,
   uplo |-> q.uplo, jobz |-> q.jobz, jobu |-> q.jobu, jobvt |-> q.jobvt]

BumpAt(s, d) == [s EXCEPT ![d] = @ + 1]

\* the address matxAlloc returns to a call that needs a scratch buffer is part
\* of the call's environment
FirstScratch == CHOOSE x \in ScratchPtrs : \A y \in ScratchPtrs : x <= y
OtherScratch(x) == ScratchPtrs \ {x}
OtherStreams(x) == Streams \ {x}

FftBase(op, t1, t2, osz, isz) ==
  [op |-> op, t1 |-> t1, t2 |-> t2, osz |-> osz, isz |-> isz, la |-> "row",
   ptr |-> 0, stream |-> 0, tp |-> FirstScratch]

FftBases ==
  { FftBase("fft", "c32", "c32", <<DimN>>, <<DimN>>),
    FftBase("fft", "c32", "c32", <<DimM, DimN>>, <<DimM, DimN>>),
    FftBase("fft", "c32", "c32", <<DimM, DimK, DimN>>, <<DimM, DimK, DimN>>),
    FftBase("fft", "c32", "f32", <<DimN \div 2 + 1>>, <<DimN>>),
    FftBase("ifft", "f32", "c32", <<DimN>>, <<DimM>>),
    FftBase("fft2", "c32", "c32", <<DimK, DimN>>, <<DimK, DimN>>),
    FftBase("fft2", "c32", "c32", <<DimM, DimK, DimN>>, <<DimM, DimK, DimN>>),
    FftBase("fft2", "c32", "c32", <<DimK, DimM, DimK, DimN>>,
            <<DimK, DimM, DimK, DimN>>) }

FftVariants(f) ==
  IF Len(f.isz) = 4 THEN { [f EXCEPT !.ptr = 10] } ELSE
  { [f EXCEPT !.ptr = 10] }
  \cup { [f EXCEPT !.stream = x] : x \in OtherStreams(f.stream) }
  \cup { [f EXCEPT !.op = x] : x \in
           (IF Len(f.isz) = 1 THEN {"fft", "ifft"} ELSE FftOps) \ {f.op} }
  \cup { [f EXCEPT !.osz = BumpAt(@, d), !.isz = BumpAt(@, d)] :
           d \in 1..Len(f.isz) }
  \cup { [f EXCEPT !.osz = BumpAt(@, d)] : d \in 1..Len(f.isz) }
  \cup { [f EXCEPT !.isz = BumpAt(@, Len(f.isz))] }
  \cup { [f EXCEPT !.la = "affine"] }
  \cup (IF f.t2 = "f32" THEN { [f EXCEPT !.tp = x] : x \in OtherScratch(f.tp) }
        ELSE {})
  \cup (IF f.t1 = "c32" /\ f.t2 = "c32"
        THEN { [f EXCEPT !.t1 = "c64", !.t2 = "c64"] } ELSE {})

GemmBase(outer, la, lc) ==
  [t1 |-> "f32", t2 |-> "f32", t3 |-> "f32", prov |-> PROVIDER_TYPE_CUBLASLT,
   outer |-> outer, ob |-> outer, oc |-> outer,
   m |-> DimM, k |-> DimK, n |-> DimN, cm |-> DimM, kb |-> DimK, cn |-> DimN,
   la |-> la, lb |-> "row", lc |-> lc, ptr |-> 0, stream |-> 0,
   tp |-> FirstScratch]

GemmBases ==
  { GemmBase(<<>>, "row", "row"),
    GemmBase(<<DimM>>, "row", "row"),
    GemmBase(<<DimK, DimM>>, "row", "row"),
    GemmBase(<<>>, "affine", "row"),
    GemmBase(<<>>, "row", "col") }

GemmVariants(g) ==
  { [g EXCEPT !.ptr = 10] }
  \cup { [g EXCEPT !.stream = x] : x \in OtherStreams(g.stream) }
  \cup { [g EXCEPT !.cm = @ + 1],
         [g EXCEPT !.m = @ + 1, !.cm = @ + 1],
         [g EXCEPT !.k = @ + 1, !.kb = @ + 1],
         [g EXCEPT !.n = @ + 1, !.cn = @ + 1],
         [g EXCEPT !.kb = @ + 1],
         [g EXCEPT !.cn = @ + 1],
         [g EXCEPT !.t2 = "f16", !.t3 = "f16"],
         [g EXCEPT !.t1 = "f64", !.t2 = "f64", !.t3 = "f64"],
         [g EXCEPT !.prov = PROVIDER_TYPE_CUTLASS] }
  \cup { [g EXCEPT !.la = x] : x \in {"row", "col", "affine", "pad"} \ {g.la} }
  \cup { [g EXCEPT !.lb = x] : x \in {"col"} \cup
                                   (IF g.la = "row" /\ g.outer = <<>> THEN {"affine"} ELSE {}) }
  \cup { [g EXCEPT !.outer = BumpAt(@, d), !.ob = BumpAt(@, d),
                    !.oc = BumpAt(@, d)] : d \in 1..Len(g.outer) }
  \cup { [g EXCEPT !.ob = BumpAt(@, d)] : d \in 1..Len(g.outer) }
  \cup { [g EXCEPT !.oc = BumpAt(@, d)] : d \in 1..Len(g.outer) }

SolverBase(op, outer, m, n) ==
  [op |-> op, t1 |-> "f32", outer |-> outer, m |-> m, n |-> n,
   ptr |-> 0, stream |-> 0, tp |-> FirstScratch, alias |-> FALSE,
   uplo |-> "U", jobz |-> "V", jobu |-> "A", jobvt |-> "A"]

SolverBases(op) ==
  IF op \in {"chol", "eig"}
  THEN { SolverBase(op, <<>>, DimK, DimK), SolverBase(op, <<DimM>>, DimK, DimK) }
  ELSE { SolverBase(op, <<>>, DimN, DimK), SolverBase(op, <<DimM>>, DimN, DimK) }

SolverVariants(q) ==
  { [q EXCEPT !.ptr = 10] }
  \cup { [q EXCEPT !.tp = x] : x \in OtherScratch(q.tp) }
  \cup (IF q.op \in {"chol", "lu", "qr", "eig"}
        THEN { [q EXCEPT !.alias = TRUE] } ELSE {})
  \cup { [q EXCEPT !.outer = BumpAt(@, d)] : d \in 1..Len(q.outer) }
  \cup (IF q.outer # <<>> THEN {} ELSE
          { [q EXCEPT !.stream = x] : x \in OtherStreams(q.stream) }
          \cup { [q EXCEPT !.m = @ + 1, !.n = @ + 1],
                 [q EXCEPT !.m = @ + 1],
                 [q EXCEPT !.t1 = "f64"] }
          \cup (IF q.op \in {"chol", "eig"} THEN { [q EXCEPT !.uplo = "L"] } ELSE {})
          \cup (IF q.op = "eig" THEN { [q EXCEPT !.jobz = "N"] } ELSE {})
          \cup (IF q.op = "svd"
                THEN { [q EXCEPT !.jobu = "N"], [q EXCEPT !.jobvt = "N"] } ELSE {}))

\* the pairs of calls a behaviour may start from: a base call and either the
\* same call again or the base call changed in one respect
Scenarios(fam) ==
  IF fam = "fft"
  THEN UNION { { <<FftCall(f), FftCall(v)>> : v \in {f} \cup FftVariants(f) } :
                 f \in FftBases }
  ELSE IF fam = "matmul"
  THEN UNION { { <<GemmCall(g), GemmCall(v)>> : v \in {g} \cup GemmVariants(g) } :
                 g \in GemmBases }
  ELSE UNION { { <<SolverCall(q), SolverCall(v)>> :
                   v \in {q} \cup SolverVariants(q) } : q \in SolverBases(fam) }

(***************************************************************************)
(* The plan caches.  matxCache_t maps a descriptor to a type-erased plan   *)
(* pointer through the family's KeyHash and KeyEq; plan 0 is "not found"   *)
(* (std::nullopt from Lookup, a null pointer as a plan).                   *)
(***************************************************************************)
CacheNames ==
  {"cache_1d", "cache_2d", "gemm_cache", "dnchol_cache", "dnlu_cache",
   "dnqr_cache", "dnsvd_cache", "dneig_cache"}

\* a dispatch layer in which the inverse transforms consult the other cache
CacheOf_InverseApart(op) ==
  CASE op \in {"fft", "ifft2"} -> "cache_1d"
    [] op \in {"fft2", "ifft"} -> "cache_2d"
    [] op = "matmul" -> "gemm_cache"
    [] op = "chol" -> "dnchol_cache"
    [] op = "lu" -> "dnlu_cache"
    [] op = "qr" -> "dnqr_cache"
    [] op = "svd" -> "dnsvd_cache"
    [] op = "eig" -> "dneig_cache"

CacheOf(op) ==
  CASE op \in {"fft", "ifft"} -> "cache_1d"
    [] op \in {"fft2", "ifft2"} -> "cache_2d"
    [] op = "matmul" -> "gemm_cache"
    [] op = "chol" -> "dnchol_cache"
    [] op = "lu" -> "dnlu_cache"
    [] op = "qr" -> "dnqr_cache"
    [] op = "svd" -> "dnsvd_cache"
    [] op = "eig" -> "dneig_cache"

KeyHash(cn, k) ==
  CASE cn \in {"cache_1d", "cache_2d"} -> FftParamsKeyHash(k)
    [] cn = "gemm_cache" -> MatMulParamsKeyHash(k)
    [] cn = "dnchol_cache" -> DnCholParamsKeyHash(k)
    [] cn = "dnlu_cache" -> DnLUParamsKeyHash(k)
    [] cn = "dnqr_cache" -> DnQRParamsKeyHash(k)
    [] cn = "dnsvd_cache" -> DnSVDParamsKeyHash(k)
    [] cn = "dneig_cache" -> DnEigParamsKeyHash(k)

KeyEq(cn, l, t) ==
  CASE cn \in {"cache_1d", "cache_2d"} -> FftParamsKeyEq(l, t)
    [] cn = "gemm_cache" -> MatMulParamsKeyEq(l, t)
    [] cn = "dnchol_cache" -> DnCholParamsKeyEq(l, t)
    [] cn = "dnlu_cache" -> DnLUParamsKeyEq(l, t)
    [] cn = "dnqr_cache" -> DnQRParamsKeyEq(l, t)
    [] cn = "dnsvd_cache" -> DnSVDParamsKeyEq(l, t)
    [] cn = "dneig_cache" -> DnEigParamsKeyEq(l, t)

\* positions of the entries a descriptor finds: same bucket, equal key
Matches(entries, cn, p) ==
  { j \in 1..Len(entries) :
      /\ KeyHash(cn, entries[j].key) = KeyHash(cn, p)
      /\ KeyEq(cn, entries[j].key, p) }

Lookup(entries, cn, p) ==
  LET hits == Matches(entries, cn, p)
  IN  IF hits = {} THEN 0
      ELSE entries[CHOOSE j \in hits : \A x \in hits : j <= x].plan

\* the caches Insert may leave: a new entry, or for a key already present
\* either the old entry kept or its plan replaced
Insert(entries, cn, p, plan) ==
  LET hits == Matches(entries, cn, p)
  IN  IF hits = {} THEN { Append(entries, [key |-> p, plan |-> plan]) }
      ELSE { entries,
             [j \in 1..Len(entries) |->
                IF j \in hits THEN [key |-> entries[j].key, plan |-> plan]
                ELSE entries[j]] }

(***************************************************************************)
(* The steps of a dispatch function.                                       *)
(***************************************************************************)
\* tv.PermuteMatrix() of the transposed scratch copy
Tvt(tp, a) == PermuteMatrix(TransposeCopy(tp, a))

\* the input view the dispatch hands to deduction, construction and execution
WorkView(c, tp) ==
  CASE c.op \in {"fft", "ifft"} -> GetFFTInputView(c, tp)
    [] c.op \in {"fft2", "ifft2", "matmul"} -> c.a
    [] c.op \in {"chol", "eig"} -> TransposeCopy(tp, c.a)
    [] c.op \in {"lu", "qr", "svd"} -> Tvt(tp, c.a)

\* does the dispatch call matxAlloc before it deduces the descriptor
NeedsAlloc(c) ==
  \/ c.op \in SolverOps
  \/ c.op \in {"fft", "ifft"} /\ FftPads(c)

\* the descriptors the plan class deduces from the views (stream not yet set)
PlanParams(c, v) ==
  CASE c.op \in {"fft", "ifft"} -> { GetFFTParams(c.t1, c.t2, c.o, v, 1) }
    [] c.op \in {"fft2", "ifft2"} -> { GetFFTParams(c.t1, c.t2, c.o, v, 2) }
    [] c.op = "matmul" -> GetGemmParams(c.t1, c.prov, c.o, v, c.b)
    [] c.op = "chol" -> { GetCholParams(c.t1, v, c.uplo) }
    [] c.op = "lu" -> { GetLUParams(c.t1, c.aux, v) }
    [] c.op = "qr" -> { GetQRParams(c.t1, c.aux, v) }
    [] c.op = "svd" ->
         { GetSVDParams(c.t1, c.o, c.aux, c.b, v, c.jobu, c.jobvt) }
    [] c.op = "eig" -> { GetEigParams(c.t1, c.aux, v, c.jobz, c.uplo) }

\* the descriptors the dispatch may look up
DispatchParams(c, v) ==
  IF c.op \in FftOps \cup {"matmul"}
  THEN { [p EXCEPT !.stream = c.stream] : p \in PlanParams(c, v) }
  ELSE IF c.op = "chol"
  THEN { [p EXCEPT !.uplo = c.uplo] : p \in PlanParams(c, v) }
  ELSE PlanParams(c, v)

DeduceThrows(c, v) ==
  /\ c.op \in FftOps
  /\ \/ DeduceFFTTransformType(c.t1, c.t2) = "none"
     \/ \E p \in PlanParams(c, v) : FftParamsThrow(c.t1, p)

\* a dispatch that takes the miss branch whatever Lookup returned
IsMiss_Always(ret) == TRUE

IsMiss(ret) == ret = 0

\* the class the dispatch constructs on a miss and casts to on a hit
PlanType(c) ==
  CASE c.op \in {"fft", "ifft"} -> <<"matxFFTPlan1D_t", c.t1, c.t2>>
    [] c.op \in {"fft2", "ifft2"} -> <<"matxFFTPlan2D_t", c.t1, c.t2>>
    [] c.op = "matmul" ->
         <<"matxMatMulHandle_t", c.t1, c.t2, c.t3, Rank(c.a), c.prov>>
    [] c.op = "chol" -> <<"matxDnCholSolverPlan_t", c.t1, Rank(c.a)>>
    [] c.op = "lu" -> <<"matxDnLUSolverPlan_t", c.t1, Rank(c.a)>>
    [] c.op = "qr" -> <<"matxDnQRSolverPlan_t", c.t1, Rank(c.a)>>
    [] c.op = "svd" -> <<"matxDnSVDSolverPlan_t", c.t1, Rank(c.a)>>
    [] c.op = "eig" -> <<"matxDnEigSolverPlan_t", c.t1, Rank(c.a)>>

OuterEqual(x, y) == \A d \in 1..(Rank(x) - 2) : x.size[d] = y.size[d]

\* the MATX_ASSERTs of the plan constructors
FftPlan1DValid(c, i) ==
  LET tt == DeduceFFTTransformType(c.t1, c.t2)
  IN  /\ tt \in {"CUFFT_C2C", "CUFFT_Z2Z"} => c.t1 = c.t2
      /\ \A d \in 1..(Rank(i) - 1) : c.o.size[d] = i.size[d]

FftPlan2DValid(c, i) ==
  LET tt == DeduceFFTTransformType(c.t1, c.t2)
      R == Rank(i)
      o == c.o
  IN  /\ IF tt \in {"CUFFT_C2R", "CUFFT_Z2D"}
         THEN Size(o, R - 2) * (Size(o, R - 1) \div 2 + 1) =
                Size(i, R - 1) * Size(i, R - 2)
         ELSE IF tt \in {"CUFFT_R2C", "CUFFT_D2Z"}
         THEN Size(o, R - 1) * Size(o, R - 2) =
                Size(i, R - 2) * (Size(i, R - 1) \div 2 + 1)
         ELSE /\ c.t1 = c.t2
              /\ Size(o, R - 2) * Size(o, R - 1) =
                   Size(i, R - 2) * Size(i, R - 1)
      /\ OuterEqual(o, i)

\* the constructor of matxMatMulHandle_t without its batch-dimension loop
MatMulHandleValid_NoBatch(c) ==
  LET R == Rank(c.a)
  IN  /\ Size(c.a, R - 1) = Size(c.b, R - 2)
      /\ Size(c.o, R - 1) = Size(c.b, R - 1)
      /\ Size(c.o, R - 2) = Size(c.a, R - 2)

MatMulHandleValid(c) ==
  LET R == Rank(c.a)
  IN  /\ Size(c.a, R - 1) = Size(c.b, R - 2)
      /\ Size(c.o, R - 1) = Size(c.b, R - 1)
      /\ Size(c.o, R - 2) = Size(c.a, R - 2)
      /\ OuterEqual(c.a, c.b) /\ OuterEqual(c.a, c.o)

CtorValid(c, v) ==
  CASE c.op \in {"fft", "ifft"} -> FftPlan1DValid(c, v)
    [] c.op \in {"fft2", "ifft2"} -> FftPlan2DValid(c, v)
    [] c.op = "matmul" -> MatMulHandleValid(c)
    [] OTHER -> TRUE

ZeroVend == [create |-> 0, query |-> 0, alloc |-> 0, configure |-> 0]

\* what the base-class destructor does with the plan's workspace members when
\* the derived constructor ends with the exception out: "none" is no free or a
\* free of nullptr, "freed" the free of the workspace the constructor
\* allocated.  matxMatMulHandle_t has no base class, so no destructor runs.
\* matxDnSolver_t::d_info has no initializer, so before AllocateWorkspace has
\* set it matxFree(d_info) gets an indeterminate pointer: null, a pointer that
\* is not registered (matxFree raises) or one that is (a foreign allocation
\* is released).
DtorOutcomes(c, out) ==
  IF c.op = "matmul" THEN {"none"}
  ELSE IF c.op \in FftOps
  THEN IF out = "vendor" THEN {"freed"} ELSE {"none"}
  ELSE {"none", "unregistered", "registered"}

\* vendor and allocator calls a constructor has made when it ends with out
CtorVend(c, out) ==
  IF out = "invalid" THEN ZeroVend
  ELSE IF c.op \in FftOps
  THEN [create |-> 1, query |-> 1, alloc |-> 1,
        configure |-> IF out = "alloc" THEN 0 ELSE 1]
  ELSE IF c.op = "matmul"
  THEN [create |-> IF out = "alloc" THEN 0 ELSE 1, query |-> 0, alloc |-> 1,
        configure |-> IF out = "alloc" THEN 0 ELSE 1]
  ELSE [create |-> 1, query |-> 1,
        alloc |-> IF out = "vendor" THEN 0 ELSE IF out = "alloc" THEN 1 ELSE 3,
        configure |-> 0]

\* how a constructor can end: "unchecked" is a constructor that completes
\* although a vendor call whose status it does not inspect (cufftCreate, the
\* workspace-size query, cufftSetWorkArea) returned a non-success status
CtorOutcomes(c, v) ==
  IF CtorValid(c, v)
  THEN {"ok", "alloc", "vendor"} \cup (IF c.op \in FftOps THEN {"unchecked"} ELSE {})
  ELSE {"invalid"}

\* a dispatch that reaches Insert although the constructor threw
CtorNextPc_Always(out) == "insert"

\* where the dispatch continues after `new Plan{...}`: an exception leaves it
CtorNextPc(out) == IF out \in {"ok", "unchecked"} THEN "insert" ELSE "failed"

\* the MATX_ASSERT / MATX_THROW checks of Exec before any vendor call
ExecValid(c, v) ==
  CASE c.op \in {"chol", "eig"} -> Size(v, Rank(v) - 1) = Size(v, Rank(v) - 2)
    [] c.op = "matmul" ->
         LET R == Rank(c.a)
         IN  \A x \in {c.a, c.b, c.o} :
               Stride(x, R - 1) = 1 \/ Stride(x, R - 2) = 1
    [] OTHER -> TRUE

\* how Exec can end: "vendor" is a vendor call that returns a non-success
\* status, "info" a factorization that returns success and leaves a nonzero
\* info value on the device
ExecOutcomes(c, v) ==
  IF ExecValid(c, v)
  THEN {"ok", "vendor"} \cup (IF c.op \in SolverOps THEN {"info"} ELSE {})
  ELSE {"invalid"}

(***************************************************************************)
(* State machine.                                                          *)
(***************************************************************************)
NoParams == [none |-> TRUE]

Idle ==
  [pc |-> "idle", k |-> 0, params |-> NoParams, view |-> NoView,
   ret |-> 0, tmp |-> 0, vend |-> ZeroVend, err |-> "none", stage |-> "none",
   vptrs |-> {}, ncalls |-> 0, pad |-> <<>>, scale |-> <<>>,
   buf |-> <<>>, outbuf |-> <<>>, ops |-> <<>>, ignored |-> FALSE,
   info |-> 0, dtor |-> "none"]

\* the allocation requests the threads make
Requests ==
  { [bytes |-> 1, space |-> "MATX_MANAGED_MEMORY", stream |-> 0],
    [bytes |-> 2, space |-> "MATX_ASYNC_DEVICE_MEMORY", stream |-> 1],
    [bytes |-> 1, space |-> "MATX_INVALID_MEMORY", stream |-> 0] }

NoRequest == [bytes |-> 0, space |-> "MATX_INVALID_MEMORY", stream |-> 0]

\* a thread outside the allocator: `mine` is the number of bytes its matxAlloc
\* calls have returned to it, `freed` the pointer that its matxFree call, if
\* that was its last call, released; `again` marks a call on that pointer
AIdle ==
  [pc |-> "idle", op |-> "none", ptr |-> 0, req |-> NoRequest, bytes |-> 0,
   tmp |-> 0, iter |-> 0, ret |-> "none", err |-> "none", writes |-> {},
   mine |-> 0, freed |-> 0, again |-> FALSE, stats |-> << >>]

Failed(loc, stage, err) ==
  [loc EXCEPT !.pc = "failed", !.stage = stage, !.err = err]

InitWith(pairs) ==
  /\ calls \in pairs
  /\ cache = [cn \in CacheNames |-> <<>>]
  /\ plans = <<>>
  /\ th = [t \in Threads |-> Idle]
  /\ deduced = [k \in 1..2 |-> {}]
  /\ execlog = {}
  /\ allocationMap = [p \in {} |-> NoRequest]
  /\ matxMemoryStats = [currentBytesAllocated |-> 0, totalBytesAllocated |-> 0,
                        maxBytesAllocated |-> 0]
  /\ memory_mtx = "none"
  /\ heap = {}
  /\ ath = [t \in Threads |-> AIdle]
  /\ launch = << >>
  /\ shm_tile = << >>
  /\ transposed = << >>
  /\ kth = << >>

Init == InitWith(UNION { Scenarios(fam) : fam \in Families })

\* the calls two host threads race on: the same views, or the same shapes on
\* other buffers
IsRacePair(pair) ==
  \/ pair[1] = pair[2]
  \/ /\ pair[1].op \notin SolverOps     \* solvers work on scratch copies
     /\ pair[1].a.data # pair[2].a.data
     /\ pair[1].a.size = pair[2].a.size
     /\ pair[1].stream = pair[2].stream

InitConc ==
  InitWith({ pair \in UNION { Scenarios(fam) : fam \in Families } :
               IsRacePair(pair) /\ Rank(pair[1].a) <= 2 })

\* the layout arguments an FFT plan constructor for tensors of rank R hands to
\* the vendor from its params_ p: in the workspace-size query (call =
\* "query") or in plan creation (call = "plan"), in the build with 64-bit
\* indices (wide) or without
FftVendorArgs(p, R, wide, call) ==
  [inembed |-> p.inembed,
   istride |-> IF ~wide THEN p.ostride
               ELSE IF call = "plan" /\ p.fft_rank = 1 /\ R = 1 THEN p.ostride
               ELSE p.istride,
   idist |-> p.idist,
   onembed |-> p.onembed, ostride |-> p.ostride, odist |-> p.odist]

\* entry of the dispatch function up to the cache lookup
\* a dispatch layer that issues its copy into the scratch buffer on stream 0
DispatchOps_Stream0(c, tp) ==
  IF ~NeedsAlloc(c) THEN << >>
  ELSE << [kind |-> "alloc", src |-> 0, dst |-> tp, stream |-> c.stream] >>
       \o (IF c.op \in SolverOps THEN << >>
           ELSE << [kind |-> "fill", src |-> 0, dst |-> tp, stream |-> 0] >>)
       \o << [kind |-> "copy", src |-> c.a.data, dst |-> tp, stream |-> 0] >>

\* what a dispatch function issues before it deduces the descriptor, in issue
\* order: matxAlloc of the scratch buffer, the zero fill of a padded FFT
\* input and the copy of the caller's input into the scratch buffer
DispatchOps(c, tp) ==
  IF ~NeedsAlloc(c) THEN << >>
  ELSE << [kind |-> "alloc", src |-> 0, dst |-> tp, stream |-> c.stream] >>
       \o (IF c.op \in SolverOps THEN << >>
           ELSE << [kind |-> "fill", src |-> 0, dst |-> tp, stream |-> c.stream] >>)
       \o << [kind |-> "copy", src |-> c.a.data, dst |-> tp, stream |-> c.stream] >>

\* what Exec and the rest of the dispatch function issue: the vendor execute,
\* then, unless an exception left the function, the copy of the scratch
\* buffer into out and matxFree of the scratch buffer
ExecOps(c, v, out) ==
  IF out = "invalid" THEN << >>
  ELSE << [kind |-> "exec", src |-> v.data,
           dst |-> IF c.op \in SolverOps THEN v.data ELSE c.o.data,
           stream |-> c.stream] >>
       \o (IF out = "ok" /\ c.op \in {"chol", "lu", "qr", "eig"}
           THEN << [kind |-> "copy", src |-> v.data, dst |-> c.o.data,
                    stream |-> c.stream] >>
           ELSE << >>)
       \o (IF out = "ok" /\ NeedsAlloc(c)
           THEN << [kind |-> "free", src |-> 0, dst |-> v.data,
                    stream |-> c.stream] >>
           ELSE << >>)

Dispatch(t, k) ==
  /\ th[t].pc = "idle"
  /\ LET c == calls[k]
         loc == [Idle EXCEPT !.k = k]
     IN  \E tp \in (IF NeedsAlloc(c) THEN {c.tp, 0} ELSE {0}) :
           LET v == WorkView(c, tp)
           IN  IF NeedsAlloc(c) /\ tp = 0
               THEN /\ th' = [th EXCEPT ![t] = Failed(loc, "alloc", "alloc")]
                    /\ UNCHANGED deduced
               ELSE IF DeduceThrows(c, v)
               THEN /\ th' = [th EXCEPT ![t] =
                                Failed([loc EXCEPT !.view = v,
                                                   !.ops = DispatchOps(c, tp)],
                                       "deduce", "invalid")]
                    /\ UNCHANGED deduced
               ELSE \E p \in DispatchParams(c, v), buf \in PadBuffers(c) :
                      LET ret == Lookup(cache[CacheOf(c.op)], CacheOf(c.op), p)
                      IN  /\ th' = [th EXCEPT ![t] =
                                      [loc EXCEPT
                                         !.pc = IF IsMiss(ret) THEN "miss" ELSE "hit",
                                         !.params = p, !.view = v, !.ret = ret,
                                         !.pad = buf,
                                         !.ops = DispatchOps(c, tp),
                                         !.buf = IF c.op \in SolverOps
                                                 THEN TransposeCopyBuf(tp, c.a, InputBuf(c.a))
                                                 ELSE << >>,
                                         !.stage = "lookup"]]
                          /\ deduced' = [deduced EXCEPT ![k] = @ \cup {p}]
  /\ UNCHANGED <<calls, cache, plans, execlog>>
  /\ UNCHANGED <<avars, kvars>>

\* `new Plan{...}` on the miss branch
Construct(t) ==
  /\ th[t].pc = "miss"
  /\ LET loc == th[t]
         c == calls[loc.k]
     IN  \E out \in CtorOutcomes(c, loc.view) :
           IF out \in {"ok", "unchecked"}
           THEN /\ plans' = Append(plans,
                               [type |-> PlanType(c), by |-> loc.k,
                                cache |-> CacheOf(c.op), key |-> loc.params,
                                tab |-> <<>>])
                /\ th' = [th EXCEPT ![t] =
                            [loc EXCEPT !.pc = CtorNextPc(out),
                                        !.tmp = Len(plans) + 1,
                                        !.vend = CtorVend(c, out),
                                        !.ignored = (out = "unchecked"),
                                        !.stage = "construct"]]
           ELSE /\ plans' = plans
                /\ \E d \in DtorOutcomes(c, out) :
                     th' = [th EXCEPT ![t] =
                              [loc EXCEPT !.pc = CtorNextPc(out),
                                          !.vend = CtorVend(c, out),
                                          !.dtor = d,
                                          !.err = out, !.stage = "construct"]]
  /\ UNCHANGED <<calls, cache, deduced, execlog>>
  /\ UNCHANGED <<avars, kvars>>

\* cache.Insert(params, tmp) on the miss branch
CacheInsert(t) ==
  /\ th[t].pc = "insert"
  /\ LET loc == th[t]
         cn == CacheOf(calls[loc.k].op)
     IN  \E e \in Insert(cache[cn], cn, loc.params, loc.tmp) :
           /\ cache' = [cache EXCEPT ![cn] = e]
           /\ th' = [th EXCEPT ![t] = [loc EXCEPT !.pc = "exec",
                                                  !.stage = "insert"]]
  /\ UNCHANGED <<calls, plans, deduced, execlog>>
  /\ UNCHANGED <<avars, kvars>>

\* address of the scratch matrix a matxDnSVDSolverPlan_t allocates and owns
PlanScratch == 200

\* the data pointers one execution of a call works on: FFT input/output and
\* GEMM operands; for the solvers the matrix (out), piv / tau / w / s, and
\* u and v of svd
ExecEntry(c, v) ==
  CASE c.op \in FftOps -> [a |-> v.data, aux |-> 0, u |-> c.o.data, v |-> 0]
    [] c.op = "matmul" ->
         [a |-> c.a.data, aux |-> 0, u |-> c.o.data, v |-> c.b.data]
    [] c.op = "chol" -> [a |-> v.data, aux |-> 0, u |-> 0, v |-> 0]
    [] c.op = "svd" ->
         [a |-> PlanScratch, aux |-> c.aux, u |-> c.o.data, v |-> c.b.data]
    [] OTHER -> [a |-> v.data, aux |-> c.aux, u |-> 0, v |-> 0]

\* std::vector::push_back on batch_a_ptrs and its sibling tables; the model
\* keeps the first MaxTab executions' entries
PushBack(tab, e) == IF Len(tab) < MaxTab THEN Append(tab, e) ELSE tab

\* a plan's pointer tables after Exec has filled them for this call; the FFT
\* and GEMM plans keep none
TabAfterExec(c, v, tab) ==
  IF c.op \in SolverOps THEN PushBack(tab, ExecEntry(c, v)) ELSE tab

\* the pointer sets the vendor loop of Exec hands over: the solvers walk
\* batch_a_ptrs from index 0 (svd: the constructor's table, paired with the
\* first entries of the s, u and v tables)
VendorEntries(c, v, tab) ==
  IF c.op \notin SolverOps THEN { ExecEntry(c, v) }
  ELSE IF c.op = "svd" THEN { TabAfterExec(c, v, tab)[1] }
  ELSE { TabAfterExec(c, v, tab)[j] : j \in 1..Len(TabAfterExec(c, v, tab)) }

\* vendor execute calls one Exec issues
VendorCalls(c, v, tab) ==
  LET R == Rank(c.o)
  IN  CASE c.op \in {"fft", "ifft"} ->
             IF R = 3 THEN Size(c.o, 0)
             ELSE IF R = 4 THEN Size(c.o, 0) * Size(c.o, 1) ELSE 1
        [] c.op \in {"fft2", "ifft2"} -> IF R = 4 THEN Size(c.o, 0) ELSE 1
        [] c.op = "matmul" -> IF R = 4 THEN Size(c.a, 0) ELSE 1
        [] c.op = "svd" -> GetNumBatches(v)
        [] OTHER -> Len(TabAfterExec(c, v, tab)) * GetNumBatches(v)

\* Exec / Forward / Inverse on the plan of either branch
\* the dispatch functions that copy the scratch buffer back into out
TransposedOps == {"chol", "lu", "qr", "eig"}

\* the factorization taken as the identity on its column-major buffer
VendorResult(buf) == buf

\* an Inverse that divides by n[0] whatever the rank of the plan
OutputScale_N0(c, p) ==
  IF c.op \in {"ifft", "ifft2"} THEN << p.n[1] >> ELSE << >>

\* the divisors Forward / Inverse apply to the output after the vendor
\* execute, from the params_ of the plan
OutputScale(c, p) ==
  IF c.op \in {"ifft", "ifft2"}
  THEN IF p.fft_rank = 1 THEN << p.n[1] >> ELSE << p.n[1] * p.n[2] >>
  ELSE << >>

Execute(t) ==
  /\ th[t].pc \in {"hit", "exec"}
  /\ LET loc == th[t]
         c == calls[loc.k]
         plan == IF loc.pc = "hit" THEN loc.ret ELSE loc.tmp
         tab == IF plan \in 1..Len(plans) THEN plans[plan].tab ELSE <<>>
     IN  \E res \in ExecOutcomes(c, loc.view) :
           \* matxDnCholSolverPlan_t::Exec does not read d_info back
           LET out == IF res = "info" /\ c.op = "chol" THEN "ok" ELSE res
           IN
           /\ execlog' = IF out = "ok"
                         THEN execlog \cup {[call |-> loc.k, params |-> loc.params,
                                             plan |-> plan]}
                         ELSE execlog
           /\ plans' = IF out # "invalid" /\ plan \in 1..Len(plans)
                       THEN [plans EXCEPT ![plan].tab = TabAfterExec(c, loc.view, tab)]
                       ELSE plans
           /\ th' = [th EXCEPT ![t] =
                       [loc EXCEPT !.pc = IF out = "ok" THEN "done" ELSE "failed",
                                   !.err = IF out = "ok" THEN "none" ELSE out,
                                   !.info = IF res = "info" THEN 1 ELSE 0,
                                   !.stage = "exec",
                                   !.vptrs = IF out = "invalid" THEN {}
                                             ELSE VendorEntries(c, loc.view, tab),
                                   !.ncalls = IF out = "invalid" THEN 0
                                              ELSE VendorCalls(c, loc.view, tab),
                                   !.scale = IF out = "ok" /\ c.op \in FftOps
                                             THEN OutputScale(c, plans[plan].key)
                                             ELSE << >>,
                                   !.ops = loc.ops \o ExecOps(c, loc.view, out),
                                   !.outbuf = IF out = "ok" /\ c.op \in TransposedOps
                                              THEN FinalCopy(c.o, loc.view.data, c.a,
                                                             VendorResult(loc.buf))
                                              ELSE << >>]]
  /\ UNCHANGED <<calls, cache, deduced>>
  /\ UNCHANGED <<avars, kvars>>

\* the dispatch function returns or its exception reaches the caller
Return(t) ==
  /\ th[t].pc \in {"done", "failed"}
  /\ th' = [th EXCEPT ![t] = Idle]
  /\ UNCHANGED <<calls, cache, plans, deduced, execlog>>
  /\ UNCHANGED <<avars, kvars>>

Step(t, ks) ==
  \/ \E k \in ks : Dispatch(t, k)
  \/ Construct(t)
  \/ CacheInsert(t)
  \/ Execute(t)
  \/ Return(t)

\* one host thread issuing both calls
Next == Step("t1", {1, 2})

Spec == Init /\ [][Next]_vars

\* two host threads without synchronisation between them, one call each
NextConc == Step("t1", {1}) \/ Step("t2", {2})

SpecConc == InitConc /\ [][NextConc]_vars

(***************************************************************************)
(* The allocator (matx_allocator.h): host threads call matxAlloc,          *)
(* matxFree, GetPointerKind and IsAllocated in any interleaving.  A        *)
(* statement `x += b` on a counter is a load and a store.                  *)
(***************************************************************************)
\* a mutex that never excludes a second owner
CanLock_Shared(mtx) == TRUE

\* std::unique_lock lck(memory_mtx) returns only once nobody owns the mutex
CanLock(mtx) == mtx = "none"

\* a matxFree that goes on to the counters whatever the lookup found
FreeAfterFind_Unchecked(iter) == "dec_ld"

\* matxFree after allocationMap.find (iter = 0 for end()):
\* MATX_ASSERT(iter != allocationMap.end(), matxInvalidParameter)
FreeAfterFind(iter) == IF iter = 0 THEN "raised" ELSE "dec_ld"

\* entry of an allocator function with its arguments
Enter(loc, op, ptr, r, pc, err) ==
  [loc EXCEPT !.pc = pc, !.op = op, !.ptr = ptr, !.req = r,
              !.bytes = r.bytes, !.err = err, !.freed = 0,
              !.again = (op = "matxFree" /\ ptr # 0 /\ ptr = loc.freed)]

\* the loop of GetPointerKind over the map: the key with the least ptr - k
ClosestKey(map, ptr) ==
  IF DOMAIN map = {} THEN 0
  ELSE CHOOSE k \in DOMAIN map : \A j \in DOMAIN map : ptr - k <= ptr - j

\* the sum of the sizes recorded in the map
SumSizes(map) ==
  LET RECURSIVE Sum(_)
      Sum(ps) == IF ps = {} THEN 0
                 ELSE LET p == CHOOSE q \in ps : TRUE
                      IN  map[p].size + Sum(ps \ {p})
  IN  Sum(DOMAIN map)

Lock(t) ==
  /\ ath[t].pc = "lock"
  /\ CanLock(memory_mtx)
  /\ memory_mtx' = t
  /\ ath' = [ath EXCEPT ![t].pc =
               IF ath[t].op = "matxAlloc" THEN "cur_ld" ELSE "find"]
  /\ UNCHANGED <<allocationMap, matxMemoryStats, heap, dvars, kvars>>

\* the lock's destructor at the end of the function, and the return
Unlock(t) ==
  LET loc == ath[t] IN
  /\ loc.pc = "unlock"
  /\ memory_mtx' = "none"
  /\ ath' = [ath EXCEPT ![t] =
               [AIdle EXCEPT !.mine = IF loc.op = "matxAlloc"
                                      THEN loc.mine + loc.bytes ELSE loc.mine,
                             !.freed = IF loc.op = "matxFree"
                                       THEN loc.ptr ELSE 0]]
  /\ UNCHANGED <<allocationMap, matxMemoryStats, heap, dvars, kvars>>

matxAlloc(t) ==
  LET loc == ath[t] IN
  \/ /\ loc.pc = "idle"
     /\ \E r \in Requests :
          /\ loc.mine + r.bytes <= MaxAlloc
          /\ \/ \* MATX_INVALID_MEMORY, or the vendor allocation fails
                /\ ath' = [ath EXCEPT ![t] =
                             Enter(loc, "matxAlloc", 0, r, "raised",
                                   IF r.space = "MATX_INVALID_MEMORY"
                                   THEN "matxInvalidType" ELSE "matxOutOfMemory")]
                /\ UNCHANGED heap
             \/ /\ r.space # "MATX_INVALID_MEMORY"
                /\ \E p \in {2 * i : i \in 1..MaxPtr} \ heap :
                     /\ heap' = heap \cup {p}
                     /\ ath' = [ath EXCEPT ![t] =
                                  Enter(loc, "matxAlloc", p, r, "lock", "none")]
     /\ UNCHANGED <<allocationMap, matxMemoryStats, memory_mtx, dvars, kvars>>
  \/ /\ loc.op = "matxAlloc" /\ loc.pc \in {"cur_ld", "tot_ld"}
     /\ ath' = [ath EXCEPT ![t] =
                  [loc EXCEPT !.pc = IF loc.pc = "cur_ld" THEN "cur_st" ELSE "tot_st",
                              !.tmp = IF loc.pc = "cur_ld"
                                      THEN matxMemoryStats.currentBytesAllocated
                                      ELSE matxMemoryStats.totalBytesAllocated]]
     /\ UNCHANGED <<allocationMap, matxMemoryStats, memory_mtx, heap, dvars, kvars>>
  \/ /\ loc.op = "matxAlloc" /\ loc.pc = "cur_st"
     /\ matxMemoryStats' = [matxMemoryStats EXCEPT
                              !.currentBytesAllocated = loc.tmp + loc.bytes]
     /\ ath' = [ath EXCEPT ![t] =
                  [loc EXCEPT !.pc = "tot_ld", !.writes = @ \cup {"current"}]]
     /\ UNCHANGED <<allocationMap, memory_mtx, heap, dvars, kvars>>
  \/ /\ loc.op = "matxAlloc" /\ loc.pc = "tot_st"
     /\ matxMemoryStats' = [matxMemoryStats EXCEPT
                              !.totalBytesAllocated = loc.tmp + loc.bytes]
     /\ ath' = [ath EXCEPT ![t] =
                  [loc EXCEPT !.pc = "max", !.writes = @ \cup {"total"}]]
     /\ UNCHANGED <<allocationMap, memory_mtx, heap, dvars, kvars>>
  \/ /\ loc.op = "matxAlloc" /\ loc.pc = "max"
     /\ matxMemoryStats' =
          [matxMemoryStats EXCEPT
             !.maxBytesAllocated =
                IF @ >= matxMemoryStats.currentBytesAllocated
                THEN @ ELSE matxMemoryStats.currentBytesAllocated]
     /\ ath' = [ath EXCEPT ![t] =
                  [loc EXCEPT !.pc = "insert", !.writes = @ \cup {"max"}]]
     /\ UNCHANGED <<allocationMap, memory_mtx, heap, dvars, kvars>>
  \/ /\ loc.op = "matxAlloc" /\ loc.pc = "insert"
     /\ allocationMap' = [p \in DOMAIN allocationMap \cup {loc.ptr} |->
                            IF p = loc.ptr
                            THEN [size |-> loc.bytes, kind |-> loc.req.space,
                                  stream |-> loc.req.stream]
                            ELSE allocationMap[p]]
     /\ ath' = [ath EXCEPT ![t] =
                  [loc EXCEPT !.pc = "unlock", !.writes = @ \cup {"map"}]]
     /\ UNCHANGED <<matxMemoryStats, memory_mtx, heap, dvars, kvars>>

matxFree(t) ==
  LET loc == ath[t] IN
  \/ /\ loc.pc = "idle"
     /\ \E ptr \in {0} \cup {2 * i : i \in 1..MaxPtr} :
          ath' = [ath EXCEPT ![t] =
                    Enter(loc, "matxFree", ptr, NoRequest,
                          IF ptr = 0 THEN "returned" ELSE "lock", "none")]
     /\ UNCHANGED <<allocationMap, matxMemoryStats, memory_mtx, heap, dvars, kvars>>
  \/ /\ loc.op = "matxFree" /\ loc.pc = "find"
     /\ LET iter == IF loc.ptr \in DOMAIN allocationMap THEN loc.ptr ELSE 0
            pc == FreeAfterFind(iter)
        IN  /\ ath' = [ath EXCEPT ![t] =
                         [loc EXCEPT
                            !.pc = pc, !.iter = iter,
                            !.bytes = IF iter = 0 THEN 0 ELSE allocationMap[iter].size,
                            !.err = IF pc = "raised"
                                    THEN "matxInvalidParameter" ELSE "none"]]
            /\ memory_mtx' = IF pc = "raised" THEN "none" ELSE memory_mtx
     /\ UNCHANGED <<allocationMap, matxMemoryStats, heap, dvars, kvars>>
  \/ /\ loc.op = "matxFree" /\ loc.pc = "dec_ld"
     /\ ath' = [ath EXCEPT ![t] =
                  [loc EXCEPT !.pc = "dec_st",
                              !.tmp = matxMemoryStats.currentBytesAllocated]]
     /\ UNCHANGED <<allocationMap, matxMemoryStats, memory_mtx, heap, dvars, kvars>>
  \/ /\ loc.op = "matxFree" /\ loc.pc = "dec_st"
     /\ matxMemoryStats' = [matxMemoryStats EXCEPT
                              !.currentBytesAllocated = loc.tmp - loc.bytes]
     /\ ath' = [ath EXCEPT ![t] =
                  [loc EXCEPT !.pc = "vfree", !.writes = @ \cup {"current"}]]
     /\ UNCHANGED <<allocationMap, memory_mtx, heap, dvars, kvars>>
  \/ \* cudaFree, cudaFreeHost or cudaFreeAsync by the recorded kind
     /\ loc.op = "matxFree" /\ loc.pc = "vfree"
     /\ heap' = heap \ {loc.ptr}
     /\ ath' = [ath EXCEPT ![t].pc = "erase"]
     /\ UNCHANGED <<allocationMap, matxMemoryStats, memory_mtx, dvars, kvars>>
  \/ /\ loc.op = "matxFree" /\ loc.pc = "erase"
     /\ allocationMap' = [p \in DOMAIN allocationMap \ {loc.iter} |->
                            allocationMap[p]]
     /\ ath' = [ath EXCEPT ![t] =
                  [loc EXCEPT !.pc = "unlock", !.writes = @ \cup {"map"}]]
     /\ UNCHANGED <<matxMemoryStats, memory_mtx, heap, dvars, kvars>>

GetPointerKind(t) ==
  LET loc == ath[t] IN
  \/ /\ loc.pc = "idle"
     /\ \E ptr \in {0} \cup (2..(2 * MaxPtr + 1)) :
          ath' = [ath EXCEPT ![t] =
                    [Enter(loc, "GetPointerKind", ptr, NoRequest,
                           IF ptr = 0 THEN "returned" ELSE "lock", "none")
                       EXCEPT !.ret = IF ptr = 0 THEN "MATX_INVALID_MEMORY"
                                      ELSE "none"]]
     /\ UNCHANGED <<allocationMap, matxMemoryStats, memory_mtx, heap, dvars, kvars>>
  \/ /\ loc.op = "GetPointerKind" /\ loc.pc = "find"
     /\ LET iter == IF loc.ptr \in DOMAIN allocationMap THEN loc.ptr ELSE 0
            near == ClosestKey(allocationMap, loc.ptr)
        IN  IF iter = 0 /\ near = 0
            THEN \* MATX_ASSERT(tmp != nullptr): the lock is released on the way out
                 /\ ath' = [ath EXCEPT ![t] =
                              [loc EXCEPT !.pc = "raised",
                                          !.err = "matxInvalidParameter"]]
                 /\ memory_mtx' = "none"
            ELSE /\ ath' = [ath EXCEPT ![t] =
                              [loc EXCEPT
                                 !.pc = "unlock",
                                 !.iter = IF iter # 0 THEN iter ELSE near,
                                 !.ret = allocationMap[IF iter # 0 THEN iter
                                                       ELSE near].kind]]
                 /\ UNCHANGED memory_mtx
     /\ UNCHANGED <<allocationMap, matxMemoryStats, heap, dvars, kvars>>

IsAllocated(t) ==
  LET loc == ath[t] IN
  \/ /\ loc.pc = "idle"
     /\ \E ptr \in {0} \cup {2 * i : i \in 1..MaxPtr} :
          ath' = [ath EXCEPT ![t] =
                    [Enter(loc, "IsAllocated", ptr, NoRequest,
                           IF ptr = 0 THEN "returned" ELSE "lock", "none")
                       EXCEPT !.ret = IF ptr = 0 THEN "false" ELSE "none"]]
     /\ UNCHANGED <<allocationMap, matxMemoryStats, memory_mtx, heap, dvars, kvars>>
  \/ /\ loc.op = "IsAllocated" /\ loc.pc = "find"
     /\ LET iter == IF loc.ptr \in DOMAIN allocationMap THEN loc.ptr ELSE 0
        IN  ath' = [ath EXCEPT ![t] =
                      [loc EXCEPT !.pc = "unlock", !.iter = iter,
                                  !.ret = IF iter # 0 THEN "true" ELSE "false"]]
     /\ UNCHANGED <<allocationMap, matxMemoryStats, memory_mtx, heap, dvars, kvars>>

\* matxGetMemoryStats: three loads, no lock taken
matxGetMemoryStats(t) ==
  LET loc == ath[t] IN
  /\ \/ /\ loc.pc = "idle"
        /\ ath' = [ath EXCEPT ![t] =
                     [Enter(loc, "matxGetMemoryStats", 0, NoRequest, "rd_tot", "none")
                        EXCEPT !.stats = << matxMemoryStats.currentBytesAllocated >>]]
     \/ /\ loc.pc = "rd_tot"
        /\ ath' = [ath EXCEPT ![t] =
                     [loc EXCEPT !.pc = "rd_max",
                                 !.stats = Append(@, matxMemoryStats.totalBytesAllocated)]]
     \/ /\ loc.pc = "rd_max"
        /\ ath' = [ath EXCEPT ![t] =
                     [loc EXCEPT !.pc = "returned",
                                 !.stats = Append(@, matxMemoryStats.maxBytesAllocated)]]
  /\ UNCHANGED <<allocationMap, matxMemoryStats, memory_mtx, heap, dvars, kvars>>

\* an early return or an exception reaches the caller
AllocReturn(t) ==
  /\ ath[t].pc \in {"returned", "raised"}
  /\ ath' = [ath EXCEPT ![t] = [AIdle EXCEPT !.mine = ath[t].mine]]
  /\ UNCHANGED <<allocationMap, matxMemoryStats, memory_mtx, heap, dvars, kvars>>

NextAlloc ==
  \E t \in Threads :
    \/ matxAlloc(t)
    \/ matxFree(t)
    \/ GetPointerKind(t)
    \/ IsAllocated(t)
    \/ Lock(t)
    \/ Unlock(t)
    \/ AllocReturn(t)

\* host threads calling the allocator, no transform in progress
SpecAlloc ==
  InitWith({CHOOSE pair \in Scenarios("fft") : TRUE}) /\ [][NextAlloc]_vars

\* the same threads also reading the statistics
SpecStats ==
  /\ InitWith({CHOOSE pair \in Scenarios("fft") : TRUE})
  /\ [][NextAlloc \/ \E t \in Threads : matxGetMemoryStats(t)]_vars

(***************************************************************************)
(* transpose_kernel_oop: the threads of one block of a launch.            *)
(***************************************************************************)
\* tile width of one block, and the size of a batch dimension
TILE_DIM == 2
Batch == 2

\* the value an element of out or a tile cell holds before it is written, and
\* what a read of a tile cell nobody has written can return
Unwritten == << >>
Indeterminate == {Unwritten, <<0, 0>>}

\* a launch over an input of rank 2, 3 or 4 whose matrix sizes lie around the
\* tile width, with TILE_DIM x TILE_DIM threads per block, a grid that covers
\* the matrix, one grid layer per batch item, and the block that is observed
Launches ==
  UNION { { [size |-> b \o <<h, w>>, blockIdx |-> [x |-> bx, y |-> by, z |-> bz]] :
              bx \in 0..((w + TILE_DIM - 1) \div TILE_DIM - 1),
              by \in 0..((h + TILE_DIM - 1) \div TILE_DIM - 1),
              bz \in 0..(TotalSize(b) - 1) } :
          b \in {<< >>, <<Batch>>, <<Batch, Batch + 1>>},
          h \in (TILE_DIM - 1)..(TILE_DIM + 1),
          w \in (TILE_DIM - 1)..(TILE_DIM + 1) }

\* threadIdx <<x, y>> of the threads of a block
BlockThreads == (0..(TILE_DIM - 1)) \X (0..(TILE_DIM - 1))

\* the batch indices the kernel derives from blockIdx.z
BatchIdx(l) ==
  IF Len(l.size) = 2 THEN << >>
  ELSE IF Len(l.size) = 3 THEN << l.blockIdx.z >>
  ELSE << l.blockIdx.z \div l.size[2], l.blockIdx.z % l.size[2] >>

\* a kernel that does not wait at the barrier
Arrived_NoBarrier(k) == TRUE

\* __syncthreads(): a thread leaves the barrier once every thread of the
\* block has arrived at it
Arrived(k) == \A u \in DOMAIN k : k[u] # "load"

InitKernel ==
  /\ calls = (CHOOSE pair \in Scenarios("fft") : TRUE)
  /\ cache = [cn \in CacheNames |-> <<>>]
  /\ plans = <<>>
  /\ th = [t \in Threads |-> Idle]
  /\ deduced = [k \in 1..2 |-> {}]
  /\ execlog = {}
  /\ allocationMap = [p \in {} |-> NoRequest]
  /\ matxMemoryStats = [currentBytesAllocated |-> 0, totalBytesAllocated |-> 0,
                        maxBytesAllocated |-> 0]
  /\ memory_mtx = "none"
  /\ heap = {}
  /\ ath = [t \in Threads |-> AIdle]
  /\ launch \in Launches
  /\ shm_tile = [cell \in 0..(TILE_DIM * (TILE_DIM + 1) - 1) |->
                   [val |-> Unwritten, by |-> {}]]
  /\ transposed =
       LET R == Len(launch.size)
       IN  [e \in { BatchIdx(launch) \o <<y, x>> :
                      y \in 0..(launch.size[R] - 1),
                      x \in 0..(launch.size[R - 1] - 1) } |->
              [val |-> Unwritten, by |-> {}, src |-> {}]]
  /\ kth = [t \in BlockThreads |-> "load"]

\* one thread of the block: the guarded load of in(.., y, x) into the tile up
\* to the barrier, then from the barrier the guarded store of the tile cell
\* with swapped thread indices into out(.., y, x).  in holds at every index
\* the index itself; out has in's last two sizes swapped.
transpose_kernel_oop(t) ==
  /\ LET R == Len(launch.size)
         b == launch.blockIdx
     IN  \/ /\ kth[t] = "load"
            /\ LET x == b.x * TILE_DIM + t[1]
                   y == b.y * TILE_DIM + t[2]
                   cell == t[2] * (TILE_DIM + 1) + t[1]
               IN  shm_tile' =
                     IF x < launch.size[R] /\ y < launch.size[R - 1]
                     THEN [shm_tile EXCEPT ![cell] =
                             [val |-> BatchIdx(launch) \o <<y, x>>,
                              by |-> @.by \cup {t}]]
                     ELSE shm_tile
            /\ kth' = [kth EXCEPT ![t] = "barrier"]
            /\ UNCHANGED <<launch, transposed>>
         \/ /\ kth[t] = "barrier"
            /\ Arrived(kth)
            /\ LET x == b.y * TILE_DIM + t[1]
                   y == b.x * TILE_DIM + t[2]
                   cell == t[1] * (TILE_DIM + 1) + t[2]
                   e == BatchIdx(launch) \o <<y, x>>
               IN  IF y < launch.size[R] /\ x < launch.size[R - 1]
                   THEN \E v \in (IF shm_tile[cell].by = {} THEN Indeterminate
                                  ELSE {shm_tile[cell].val}) :
                          transposed' =
                            [transposed EXCEPT ![e] =
                               [val |-> v, by |-> @.by \cup {t},
                                src |-> shm_tile[cell].by]]
                   ELSE transposed' = transposed
            /\ kth' = [kth EXCEPT ![t] = "done"]
            /\ UNCHANGED <<launch, shm_tile>>
  /\ UNCHANGED <<dvars, avars>>

NextKernel == \E t \in BlockThreads : transpose_kernel_oop(t)

\* the threads of one block of a transpose launch, no host call in progress
SpecKernel == InitKernel /\ [][NextKernel]_vars

(***************************************************************************)
(* Properties.                                                             *)
(***************************************************************************)
CacheOfCall(k) == CacheOf(calls[k].op)
InCall(t) == th[t].pc \in {"hit", "miss", "insert", "exec"}
ThCache(t) == CacheOfCall(th[t].k)

\* C1: in a single-threaded program, a call whose descriptor is KeyEq-equal to
\* the descriptor of an earlier successful call of the same cache takes the hit
\* branch, makes no vendor creation, workspace query, allocation or
\* configuration call, and executes the plan the earlier call executed; all
\* successful calls of one descriptor class execute one plan.
C1_HitReusesPlan ==
  /\ \A t \in Threads : InCall(t) =>
       \A e \in execlog :
         (/\ CacheOfCall(e.call) = ThCache(t)
          /\ KeyEq(ThCache(t), e.params, th[t].params))
         => /\ th[t].pc = "hit"
            /\ th[t].ret = e.plan
            /\ th[t].vend = ZeroVend
  /\ \A e1, e2 \in execlog :
       (/\ CacheOfCall(e1.call) = CacheOfCall(e2.call)
        /\ KeyEq(CacheOfCall(e1.call), e1.params, e2.params))
       => e1.plan = e2.plan

C1_Witness ==
  \E t \in Threads : \E e \in execlog :
    /\ th[t].pc = "hit"
    /\ e.call # th[t].k
    /\ calls[e.call] # calls[th[t].k]
    /\ KeyEq(ThCache(t), e.params, th[t].params)
    /\ th[t].ret = e.plan

\* C2: in a single-threaded program no two constructed plans of one cache have
\* KeyEq-equal descriptors, and a call is on its miss branch (constructing or
\* about to insert) only while Lookup of its descriptor finds nothing.
C2_OnePlanPerClass ==
  /\ \A i, j \in 1..Len(plans) :
       (i < j /\ plans[i].cache = plans[j].cache)
       => ~KeyEq(plans[i].cache, plans[i].key, plans[j].key)
  /\ \A t \in Threads : th[t].pc \in {"miss", "insert"} =>
       Lookup(cache[ThCache(t)], ThCache(t), th[t].params) = 0

C2_Witness ==
  /\ Len(plans) = 1
  /\ \E e1, e2 \in execlog : e1.call # e2.call /\ e1.plan = e2.plan

\* C3: with two threads, calls with KeyEq-equal descriptors still construct a
\* single plan, and every successful execution of the class uses that plan.
C3_OnePlanUnderConcurrency ==
  /\ \A i, j \in 1..Len(plans) :
       (i # j /\ plans[i].cache = plans[j].cache)
       => ~KeyEq(plans[i].cache, plans[i].key, plans[j].key)
  /\ \A e1, e2 \in execlog :
       (/\ CacheOfCall(e1.call) = CacheOfCall(e2.call)
        /\ KeyEq(CacheOfCall(e1.call), e1.params, e2.params))
       => e1.plan = e2.plan

\* every descriptor the behaviour has deduced or stored
SeenParams ==
  deduced[1] \cup deduced[2] \cup
  { cache[cn][j].key : cn \in {CacheOfCall(1)}, j \in 1..Len(cache[CacheOfCall(1)]) }

\* C4: descriptors that KeyEq declares equal have equal KeyHash values.
C4_EqImpliesSameHash ==
  \A p, q \in SeenParams :
    KeyEq(CacheOfCall(1), p, q) => KeyHash(CacheOfCall(1), p) = KeyHash(CacheOfCall(1), q)

C4_Witness ==
  \E p, q \in SeenParams :
    /\ p # q
    /\ KeyEq(CacheOfCall(1), p, q)
    /\ \E t \in Threads : th[t].pc = "hit" /\ th[t].params = q

SameLayout(x, y) == x.size = y.size /\ x.stride = y.stride

\* the calls agree on everything parameter deduction may read
SameMeta(c, d) ==
  /\ c.op = d.op /\ c.prov = d.prov
  /\ c.t1 = d.t1 /\ c.t2 = d.t2 /\ c.t3 = d.t3
  /\ SameLayout(c.o, d.o) /\ SameLayout(c.a, d.a) /\ SameLayout(c.b, d.b)
  /\ c.stream = d.stream
  /\ c.uplo = d.uplo /\ c.jobz = d.jobz /\ c.jobu = d.jobu /\ c.jobvt = d.jobvt

\* C5: calls that agree on sizes, strides, element types, rank and flags deduce
\* KeyEq-equal descriptors, whatever their data pointers.
C5_DeductionDeterministic ==
  \A k1, k2 \in 1..2 :
    SameMeta(calls[k1], calls[k2]) =>
      \A p \in deduced[k1], q \in deduced[k2] : KeyEq(CacheOfCall(k1), p, q)

\* the calls use one cache but differ in a size or an element type
ShapeOrTypeDiffers(c, d) ==
  /\ CacheOf(c.op) = CacheOf(d.op)
  /\ \/ c.o.size # d.o.size \/ c.a.size # d.a.size \/ c.b.size # d.b.size
     \/ c.t1 # d.t1 \/ c.t2 # d.t2 \/ c.t3 # d.t3

\* C6: calls whose views differ in a size, the batch count or an element type
\* deduce KeyEq-unequal descriptors.
C6_ShapesSeparateKeys ==
  ShapeOrTypeDiffers(calls[1], calls[2]) =>
    \A p \in deduced[1], q \in deduced[2] : ~KeyEq(CacheOfCall(1), p, q)

\* C7: calls that differ only in the stream deduce KeyEq-unequal descriptors,
\* and no plan is executed on a stream other than the one it was created for.
C7_StreamInKey ==
  /\ (calls[1].stream # calls[2].stream
      /\ calls[2] = [calls[1] EXCEPT !.stream = calls[2].stream])
     => \A p \in deduced[1], q \in deduced[2] : ~KeyEq(CacheOfCall(1), p, q)
  /\ \A e \in execlog :
       calls[plans[e.plan].by].stream = calls[e.call].stream

\* the calls differ in a flag only, or in a stride of a view the plan works
\* on directly (not through a scratch copy)
FlagOrLayoutDiffers(c, d) ==
  /\ c # d
  /\ \/ SameLayout(c.a, d.a) /\ SameLayout(c.b, d.b) /\ SameLayout(c.o, d.o)
     \/ ~NeedsAlloc(c) /\ ~NeedsAlloc(d)
  /\ d = [c EXCEPT !.uplo = d.uplo, !.jobz = d.jobz, !.jobu = d.jobu,
                   !.jobvt = d.jobvt, !.prov = d.prov,
                   !.a = [c.a EXCEPT !.stride = d.a.stride],
                   !.b = [c.b EXCEPT !.stride = d.b.stride],
                   !.o = [c.o EXCEPT !.stride = d.o.stride]]

\* C8: calls that differ only in a flag (uplo, jobz, jobu, jobvt, provider) or
\* in a stride deduce KeyEq-unequal descriptors.
C8_FlagsInKeyEq ==
  FlagOrLayoutDiffers(calls[1], calls[2]) =>
    \A p \in deduced[1], q \in deduced[2] : ~KeyEq(CacheOfCall(1), p, q)

\* C9: every cache entry holds a plan whose constructor completed, and after a
\* constructor threw (assertion, allocation or vendor failure) Lookup of the
\* call's descriptor still finds nothing.
C9_FailedConstructionNotCached ==
  /\ \A cn \in CacheNames : \A j \in 1..Len(cache[cn]) :
       cache[cn][j].plan \in 1..Len(plans)
  /\ \A t \in Threads :
       (th[t].pc = "failed" /\ th[t].stage = "construct")
       => Lookup(cache[ThCache(t)], ThCache(t), th[t].params) = 0

C9_Witness ==
  \E t \in Threads :
    /\ th[t].pc = "failed" /\ th[t].stage = "construct"
    /\ th[t].err \in {"invalid", "alloc", "vendor"}
    /\ Len(plans) >= 1

\* C10: no step removes or replaces a cache entry, and a descriptor that Lookup
\* finds keeps finding the same plan.
C10_NoEviction ==
  [][\A cn \in CacheNames :
       /\ Len(cache'[cn]) >= Len(cache[cn])
       /\ \A j \in 1..Len(cache[cn]) : cache'[cn][j] = cache[cn][j]
       /\ \A p \in (IF cn = CacheOfCall(1) THEN SeenParams ELSE {}) :
            Lookup(cache[cn], cn, p) # 0
            => Lookup(cache'[cn], cn, p) = Lookup(cache[cn], cn, p)]_vars

C10_Witness ==
  \E t \in Threads :
    /\ th[t].pc = "hit"
    /\ Len(cache[ThCache(t)]) = 2
    /\ th[t].ret = cache[ThCache(t)][1].plan

\* the execution of thread t reached the vendor loop
ReachedVendor(t) == th[t].stage = "exec" /\ th[t].ncalls > 0

\* C11: every pointer set an execution hands to the vendor is the one derived
\* from the current call's views; none comes from an earlier execution.
C11_PointersFromCurrentCall ==
  \A t \in Threads : ReachedVendor(t) =>
    th[t].vptrs = { ExecEntry(calls[th[t].k], th[t].view) }

\* C12: executing a plan leaves its pointer tables as the first execution left
\* them, and every execution of a solver plan with batch count B issues
\* exactly B vendor calls.
C12_ExecRepeatable ==
  /\ \A j \in 1..Len(plans) : Len(plans[j].tab) <= 1
  /\ \A t \in Threads :
       (ReachedVendor(t) /\ calls[th[t].k].op \in SolverOps)
       => th[t].ncalls = th[t].params.batch_size

IsSquare(v) == Size(v, Rank(v) - 1) = Size(v, Rank(v) - 2)

\* the dimension relationships the transform of call c requires
DimsValid(c) ==
  /\ CtorValid(c, WorkView(c, c.tp))
  /\ c.op \in {"chol", "eig"} => IsSquare(c.a)

\* C13: a call whose views violate the required dimension relationships never
\* reaches a vendor execute call and never completes, whatever the cache holds.
C13_InvalidDimsAlwaysFail ==
  \A t \in Threads :
    (th[t].k # 0 /\ ~DimsValid(calls[th[t].k]))
    => th[t].ncalls = 0 /\ th[t].pc # "done"

\* C15: a chol call on a non-square view fails at parameter deduction: it
\* never gets past the lookup, so no Cholesky plan is constructed, no vendor
\* workspace query is made and nothing is inserted for it.
C15_CholSquareAtDeduction ==
  /\ \A t \in Threads :
       (th[t].k # 0 /\ calls[th[t].k].op = "chol" /\ ~IsSquare(calls[th[t].k].a))
       => th[t].pc = "failed" /\ th[t].stage \in {"alloc", "deduce"}
  /\ \A j \in 1..Len(plans) :
       plans[j].cache = "dnchol_cache" => IsSquare(calls[plans[j].by].a)

\* the four ways the views of a matmul call can disagree
GemmMismatch(c) ==
  LET R == Rank(c.a)
  IN  \/ Size(c.a, R - 1) # Size(c.b, R - 2)
      \/ Size(c.o, R - 1) # Size(c.b, R - 1)
      \/ Size(c.o, R - 2) # Size(c.a, R - 2)
      \/ \E d \in 1..(R - 2) : c.a.size[d] # c.b.size[d] \/ c.a.size[d] # c.o.size[d]

\* thread t has just run the constructor of a GEMM plan for a mismatched call
GemmCtorRan(t) ==
  /\ th[t].k # 0 /\ th[t].stage = "construct"
  /\ calls[th[t].k].op = "matmul" /\ GemmMismatch(calls[th[t].k])

\* C14: constructing a GEMM plan for views with mismatched inner, column, row
\* or batch dimensions fails with InvalidSize before the workspace is
\* allocated and before any vendor call, and yields no plan.
C14_GemmCtorRejectsMismatch ==
  /\ \A t \in Threads : GemmCtorRan(t) =>
        /\ th[t].pc = "failed" /\ th[t].err = "invalid"
        /\ th[t].vend = ZeroVend
  /\ \A j \in 1..Len(plans) :
        plans[j].cache = "gemm_cache" => ~GemmMismatch(calls[plans[j].by])

\* a constructor rejected a call whose batch dimensions alone disagree
C14_Witness ==
  \E t \in Threads :
    /\ GemmCtorRan(t) /\ th[t].err = "invalid"
    /\ MatMulHandleValid_NoBatch(calls[th[t].k])

\* call c is a 1D complex-to-complex transform whose output is shorter than its input
ShortOutput(c) ==
  /\ c.op \in {"fft", "ifft"}
  /\ ~IsR2C(c.t1, c.t2) /\ ~IsC2R(c.t1, c.t2)
  /\ Lsize(c.o) < Lsize(c.a)

\* C16: when the output's transform length L is shorter than the input's, the
\* view the dispatch works on keeps only the first L elements of the last
\* dimension and the deduced transform length n[0] is L.
C16_ShortOutputSlicesInput ==
  \A t \in Threads :
    (th[t].k # 0 /\ th[t].params # NoParams /\ ShortOutput(calls[th[t].k]))
    => /\ Lsize(th[t].view) = Lsize(calls[th[t].k].o)
       /\ th[t].params.n[1] = Lsize(calls[th[t].k].o)

\* thread t has dispatched an fft/ifft whose input had to be padded
Padded(t) ==
  /\ th[t].k # 0 /\ th[t].params # NoParams
  /\ calls[th[t].k].op \in {"fft", "ifft"} /\ FftPads(calls[th[t].k])

\* C17: when the output's transform length exceeds the input's, the dispatch
\* works on a temporary view whose last dimension is the output's transform
\* length, whose leading elements are the caller's input and whose remaining
\* elements are all zero.
C17_LongOutputZeroPads ==
  \A t \in Threads : Padded(t) =>
    LET c == calls[th[t].k] IN
    /\ th[t].view.data # c.a.data
    /\ Lsize(th[t].view) = ActFftSize(c)
    /\ Len(th[t].pad) = ActFftSize(c)
    /\ \A j \in 1..Len(th[t].pad) :
         th[t].pad[j] = IF j <= Lsize(c.a) THEN InputRow(c.a)[j] ELSE 0

\* the plan thread t executed
PlanUsed(t) == plans[IF th[t].ret # 0 THEN th[t].ret ELSE th[t].tmp]

\* thread t has completed the execution of an FFT plan
FftDone(t) ==
  th[t].pc = "done" /\ th[t].stage = "exec" /\ calls[th[t].k].op \in FftOps

\* C18: a completed ifft / ifft2, on a hit or on a miss, has scaled the output
\* exactly once, by the product of the transform lengths of the plan it
\* executed (n[0] for a 1D plan, n[0]*n[1] for a 2D plan); a completed
\* fft / fft2 has applied no scaling.
C18_InverseScalesOnce ==
  \A t \in Threads : FftDone(t) =>
    LET n == PlanUsed(t).key.n
        one_d == PlanUsed(t).key.fft_rank = 1
    IN  CASE calls[th[t].k].op \in {"fft", "fft2"} -> th[t].scale = << >>
          [] calls[th[t].k].op \in {"ifft", "ifft2"} ->
               /\ Len(th[t].scale) = 1
               /\ th[t].scale[1] = IF one_d THEN n[1] ELSE n[1] * n[2]

\* an ifft2 completed on a plan that an fft2 had inserted
C18_Witness ==
  \E t \in Threads :
    /\ FftDone(t) /\ calls[th[t].k].op = "ifft2" /\ th[t].ret # 0
    /\ calls[PlanUsed(t).by].op = "fft2"
    /\ th[t].scale = << DimN * DimK >>

\* the two calls are a forward and an inverse transform of the same
\* dimensionality on the same views and stream
DirectionPair ==
  /\ {calls[1].op, calls[2].op} \in {{"fft", "ifft"}, {"fft2", "ifft2"}}
  /\ [calls[1] EXCEPT !.op = calls[2].op] = calls[2]

\* the cache and the transform rank the dispatch function of op is written for
FftCacheName(op) == IF op \in {"fft", "ifft"} THEN "cache_1d" ELSE "cache_2d"
FftRankOf(op) == IF op \in {"fft", "ifft"} THEN 1 ELSE 2

\* C19: a forward and an inverse transform on the same views deduce
\* KeyEq-equal descriptors, so whichever comes second hits the plan the other
\* one executed; a 1D dispatch only ever hits a plan of cache_1d built for
\* fft_rank 1 and a 2D dispatch only a plan of cache_2d built for fft_rank 2.
C19_DirectionsSharePlans ==
  /\ DirectionPair =>
        /\ \A p \in deduced[1], q \in deduced[2] :
             /\ FftParamsKeyEq(p, q)
             /\ FftParamsKeyHash(p) = FftParamsKeyHash(q)
        /\ \A t \in Threads : InCall(t) =>
             \A e \in execlog : th[t].pc = "hit" /\ th[t].ret = e.plan
  /\ \A t \in Threads :
        (th[t].pc = "hit" /\ calls[th[t].k].op \in FftOps) =>
          LET p == plans[th[t].ret]
              op == calls[th[t].k].op
          IN  /\ p.cache = FftCacheName(op)
              /\ p.key.fft_rank = FftRankOf(op)
              /\ calls[p.by].op \in {"fft", "ifft"} <=> op \in {"fft", "ifft"}

\* an ifft hit the plan that the fft on the same views had inserted
C19_Witness ==
  /\ DirectionPair
  /\ \E t \in Threads :
        /\ th[t].pc = "hit" /\ calls[th[t].k].op = "ifft"
        /\ calls[plans[th[t].ret].by].op = "fft"
        /\ deduced[1] # {} /\ deduced[2] # {}

\* the row count the descriptor of a solver call records (n for chol)
LeadingDim(op, p) == IF op = "chol" THEN p.n ELSE p.m

\* where the vendor, given leading dimension ld, looks for element idx of a
\* batch of column-major matrices of shape s
ColMajorOffset(s, idx, ld) ==
  LET R == Len(s)
      batch == [d \in 1..R |-> IF d <= R - 2 THEN idx[d] ELSE 0]
  IN  DotFrom(batch, ContigStrides(s), 1) + idx[R] * ld + idx[R - 1]

\* thread t has deduced the descriptor of a chol, lu, qr or eig call
Transposed(t) ==
  /\ th[t].k # 0 /\ th[t].params # NoParams
  /\ calls[th[t].k].op \in TransposedOps

\* C20: for chol, lu, qr and eig on a row-major m x n input a, the scratch
\* buffer handed to the vendor holds a in column-major order with leading
\* dimension equal to the row count of the descriptor, and, the factorization
\* being the identity, the final copy leaves out equal to a element for element.
C20_ColumnMajorRoundTrip ==
  \A t \in Threads : Transposed(t) =>
    LET c == calls[th[t].k]
        R == Rank(c.a)
        m == Size(c.a, R - 2)
        ld == LeadingDim(c.op, th[t].params)
    IN  /\ ld = m
        /\ \A idx \in Indices(c.a.size) :
             th[t].buf[ColMajorOffset(c.a.size, idx, ld) + 1]
               = ReadAt(c.a, InputBuf(c.a), idx)
        /\ (th[t].pc = "done" /\ th[t].stage = "exec") =>
             \A idx \in Indices(c.a.size) :
               ReadAt(c.o, th[t].outbuf, idx) = ReadAt(c.a, InputBuf(c.a), idx)

\* a qr call on a matrix that is not square completed its final copy
C20_Witness ==
  \E t \in Threads :
    /\ Transposed(t) /\ calls[th[t].k].op = "qr"
    /\ th[t].pc = "done" /\ th[t].stage = "exec"
    /\ Rank(calls[th[t].k].a) = 2
    /\ Size(calls[th[t].k].a, 0) # Size(calls[th[t].k].a, 1)
    /\ Len(th[t].outbuf) = DimN * DimK

C26_WorkspaceSliceInBounds ==
  \A t \in Threads :
    (ReachedVendor(t) /\ calls[th[t].k].op \in SolverOps)
    => \A i \in 0..(th[t].ncalls - 1) : i < PlanUsed(t).key.batch_size

\* C30: for cuBLASLt and row- or column-major A and B with a contiguous
\* row-major C, the descriptor describes a consistent product: with op(A) of
\* shape M x K and op(B) of shape K x N the inner dimensions agree and
\* (c_rows, c_cols) = (M, N) is the logical shape of C.
C30_GemmDescriptorConsistent ==
  \A t \in Threads :
    LET c == calls[th[t].k]
        p == th[t].params
        R == Rank(c.a)
    IN  (/\ th[t].k # 0 /\ p # NoParams /\ c.op = "matmul"
         /\ c.prov = PROVIDER_TYPE_CUBLASLT /\ MatMulHandleValid(c)
         /\ c.o = MkView(c.o.size, c.o.data)
         /\ \A x \in {c.a, c.b} : Stride(x, R - 1) = 1 \/ Stride(x, R - 2) = 1)
        => LET M  == IF p.opA = "N" THEN p.a_rows ELSE p.a_cols
               Ka == IF p.opA = "N" THEN p.a_cols ELSE p.a_rows
               Kb == IF p.opB = "N" THEN p.b_rows ELSE p.b_cols
               N  == IF p.opB = "N" THEN p.b_cols ELSE p.b_rows
           IN  /\ Ka = Kb
               /\ p.c_rows = M /\ p.c_cols = N
               /\ M = Size(c.o, R - 2) /\ N = Size(c.o, R - 1)

\* C29: for fft/ifft, fft2/ifft2 and matmul on views with valid dimensions,
\* the number of vendor execute calls of one dispatch times the batch count
\* of the plan equals the product of the sizes of all dimensions above the
\* transform's intrinsic rank (1 for fft/ifft, 2 for fft2/ifft2 and matmul).
C29_BatchesCoverOuterDims ==
  \A t \in Threads :
    LET c == calls[th[t].k] IN
    (ReachedVendor(t) /\ c.op \notin SolverOps /\ DimsValid(c))
    => th[t].ncalls * PlanUsed(t).key.batch
         = ProdUpto(th[t].view.size,
                    Rank(th[t].view) - FftRankOf(IF c.op = "matmul" THEN "fft2" ELSE c.op))

\* C21: chol, lu, qr and eig issue the read of a (the copy into the scratch
\* buffer) before the write of out, both on the caller's stream, so a call
\* whose out aliases a leaves in out what a call with a distinct out leaves.
C21_AliasedOutputSafe ==
  \A t \in Threads :
    LET c == calls[th[t].k]
        ops == th[t].ops
    IN  (th[t].k # 0 /\ c.op \in TransposedOps) =>
          /\ \A j \in 1..Len(ops) :
               (ops[j].kind = "copy" /\ ops[j].dst = c.o.data) =>
                 /\ ops[j].stream = c.stream
                 /\ \E i \in 1..(j - 1) :
                      /\ ops[i].kind = "copy" /\ ops[i].src = c.a.data
                      /\ ops[i].stream = c.stream
          /\ \A j \in 1..Len(ops) :
               ops[j].src = c.a.data => ops[j].stream = c.stream
          /\ (th[t].pc = "done" /\ c.o.data = c.a.data) =>
               th[t].outbuf = InputBuf(c.a)

\* a qr call with out aliasing a completed
C21_Witness ==
  \E t \in Threads :
    /\ th[t].pc = "done" /\ calls[th[t].k].op = "qr"
    /\ calls[th[t].k].o.data = calls[th[t].k].a.data
    /\ Len(th[t].ops) = 5

\* C27: when a chol, lu, qr, svd or eig dispatch ends, normally or with an
\* error, the scratch buffer it allocated has been passed to matxFree; on
\* the normal path the free follows the copy of the result into out.
C27_ScratchAlwaysFreed ==
  \A t \in Threads :
    LET c == calls[th[t].k]
        ops == th[t].ops
    IN  (th[t].k # 0 /\ c.op \in SolverOps /\ th[t].pc \in {"done", "failed"}) =>
          \A i \in 1..Len(ops) : ops[i].kind = "alloc" =>
            /\ \E j \in (i + 1)..Len(ops) :
                 ops[j].kind = "free" /\ ops[j].dst = ops[i].dst
            /\ \A j \in 1..Len(ops) :
                 (ops[j].kind = "copy" /\ ops[j].dst = c.o.data) =>
                   \E f \in (j + 1)..Len(ops) : ops[f].kind = "free"

\* C28: an fft / ifft that returns normally allocates a temporary input only
\* when the input is shorter than the transform consumes; zero fill, copy,
\* transform and release are issued in that order on the caller's stream; and
\* matxFree is called exactly for a temporary that was allocated.
C28_FftTemporaryLifetime ==
  \A t \in Threads :
    LET c == calls[th[t].k]
        ops == th[t].ops
        kinds == [j \in 1..Len(ops) |-> ops[j].kind]
    IN  (th[t].k # 0 /\ c.op \in {"fft", "ifft"} /\ th[t].pc = "done") =>
          /\ kinds \in {<<"exec">>, <<"alloc", "fill", "copy", "exec", "free">>}
          /\ Len(ops) > 1 => ActFftSize(c) > Lsize(c.a)
          /\ \A j \in 1..Len(ops) : ops[j].stream = c.stream
          /\ Len(ops) > 1 => ops[5].dst = ops[1].dst /\ ops[1].dst # c.a.data

\* C22: whenever a vendor call of plan construction or execution returns a
\* non-success status the dispatch aborts with a vendor error: no dispatch
\* goes on after a failed vendor call, and a dispatch that saw a vendor error
\* has stopped.
C22_VendorFailureAborts ==
  \A t \in Threads :
    /\ ~th[t].ignored
    /\ th[t].err = "vendor" => th[t].pc = "failed"

\* C23: matxAlloc's bookkeeping update, matxFree, GetPointerKind and
\* IsAllocated hold the allocator mutex for the whole time they read or write
\* the allocation map or the statistics: at most one thread is inside such a
\* section and it owns the mutex, and no update is lost: whenever the mutex is
\* free, currentBytesAllocated is the sum of the registered sizes,
\* totalBytesAllocated is the sum of all bytes matxAlloc has returned, and the
\* registered pointers are the vendor's live addresses other than those a
\* matxAlloc call is about to register.
C23_AllocatorMutualExclusion ==
  LET Section == {"cur_ld", "cur_st", "tot_ld", "tot_st", "max", "insert",
                  "find", "dec_ld", "dec_st", "vfree", "erase", "unlock"}
      Pending == { ath[t].ptr : t \in { u \in Threads : /\ ath[u].op = "matxAlloc"
                                                         /\ ath[u].pc = "lock" } }
  IN  /\ \A t1, t2 \in Threads :
           ath[t1].pc \in Section /\ ath[t2].pc \in Section => t1 = t2
      /\ \A t \in Threads : ath[t].pc \in Section => memory_mtx = t
      /\ memory_mtx = "none" =>
           /\ matxMemoryStats.currentBytesAllocated = SumSizes(allocationMap)
           /\ matxMemoryStats.totalBytesAllocated = ath["t1"].mine + ath["t2"].mine
           /\ DOMAIN allocationMap = heap \ Pending

\* a matxAlloc in the middle of its counter updates while a matxFree of a
\* registered pointer waits for the mutex
C23_Witness ==
  \E t1, t2 \in Threads :
    /\ ath[t1].op = "matxAlloc" /\ ath[t1].pc = "tot_st"
    /\ ath[t2].op = "matxFree" /\ ath[t2].pc = "lock"
    /\ ath[t2].ptr \in DOMAIN allocationMap

\* C24: a failing allocator call leaves the bookkeeping as it was: a call that
\* raised has written neither the map nor a counter; matxFree of a non-null
\* pointer the lookup does not find raises matxInvalidParameter; matxAlloc with
\* MATX_INVALID_MEMORY raises matxInvalidType; matxFree(nullptr) returns
\* without error and without a write.
C24_FailedCallsChangeNothing ==
  \A t \in Threads :
    LET loc == ath[t]
    IN  /\ loc.pc = "raised" => loc.writes = {} /\ loc.err # "none"
        /\ (loc.op = "matxFree" /\ loc.ptr = 0) =>
             loc.pc = "returned" /\ loc.err = "none" /\ loc.writes = {}
        /\ (/\ loc.op = "matxFree" /\ loc.ptr # 0 /\ loc.iter = 0
            /\ loc.pc \notin {"lock", "find"}) =>
             loc.pc = "raised" /\ loc.err = "matxInvalidParameter"
        /\ (loc.op = "matxAlloc" /\ loc.req.space = "MATX_INVALID_MEMORY") =>
             loc.pc = "raised" /\ loc.err = "matxInvalidType"

\* the second matxFree of a pointer raised while another allocation is
\* registered
C24_Witness ==
  \E t \in Threads :
    /\ ath[t].op = "matxFree" /\ ath[t].pc = "raised" /\ ath[t].again
    /\ matxMemoryStats.currentBytesAllocated > 0

\* C34: GetPointerKind returns MATX_INVALID_MEMORY for a null pointer, the
\* recorded kind for a registered pointer, and for a non-null pointer that is
\* not registered the kind of the allocation with the greatest registered base
\* address not above the pointer.
C34_PointerKindOfNextLowestBase ==
  \A t \in Threads :
    LET loc == ath[t]
        below == { k \in DOMAIN allocationMap : k <= loc.ptr }
    IN  (loc.op = "GetPointerKind" /\ loc.pc \in {"unlock", "returned"}) =>
          IF loc.ptr = 0 THEN loc.ret = "MATX_INVALID_MEMORY"
          ELSE IF loc.ptr \in DOMAIN allocationMap
          THEN loc.ret = allocationMap[loc.ptr].kind
          ELSE below # {} =>
                 loc.ret = allocationMap[CHOOSE k \in below :
                                           \A j \in below : j <= k].kind

\* C37: between allocator calls currentBytesAllocated is the sum of the sizes
\* recorded in allocationMap and every registered pointer has a kind other
\* than MATX_INVALID_MEMORY; no step lowers totalBytesAllocated or
\* maxBytesAllocated.
C37_StatisticsMatchTheMap ==
  /\ [](memory_mtx = "none" =>
          /\ matxMemoryStats.currentBytesAllocated = SumSizes(allocationMap)
          /\ matxMemoryStats.maxBytesAllocated
               >= matxMemoryStats.currentBytesAllocated
          /\ \A p \in DOMAIN allocationMap :
               allocationMap[p].kind # "MATX_INVALID_MEMORY")
  /\ [][/\ matxMemoryStats'.totalBytesAllocated
             >= matxMemoryStats.totalBytesAllocated
         /\ matxMemoryStats'.maxBytesAllocated
             >= matxMemoryStats.maxBytesAllocated]_vars

\* both request sizes have been registered and one of them freed again
C37_Witness ==
  /\ memory_mtx = "none"
  /\ DOMAIN allocationMap # {}
  /\ matxMemoryStats.maxBytesAllocated = 3
  /\ matxMemoryStats.currentBytesAllocated < 3

\* C38: every triple (current, total, max) that matxGetMemoryStats returns
\* has max >= current and total >= max.
C38_StatsSnapshotConsistent ==
  \A t \in Threads :
    (ath[t].op = "matxGetMemoryStats" /\ ath[t].pc = "returned") =>
      /\ ath[t].stats[3] >= ath[t].stats[1]
      /\ ath[t].stats[2] >= ath[t].stats[3]

\* C39: the buffer GetFFTInputView allocates for zero-padding, of
\* sizeof(T1) * shape.TotalSize() bytes, is at least as large as the padded
\* view of T2 elements built on it.
C39_PadBufferHoldsPaddedView ==
  \A t \in Threads : Padded(t) =>
    LET c == calls[th[t].k]
    IN  SizeOf(c.t1) * TotalSize(th[t].view.size)
          >= SizeOf(c.t2) * TotalSize(th[t].view.size)

\* C31: an FFT plan constructor hands the vendor, in the workspace-size query
\* and in plan creation alike and in both index-width builds, the input
\* stride, distance and embedding of the input view in the input roles and
\* those of the output view in the output roles.
C31_FftLayoutArgumentsInRole ==
  \A t \in Threads :
    (/\ th[t].k # 0 /\ calls[th[t].k].op \in FftOps
     /\ th[t].stage = "construct" /\ th[t].pc = "insert") =>
      LET c == calls[th[t].k]
          i == th[t].view
          R == Rank(i)
          p == plans[th[t].tmp].key
          q == p.fft_rank
      IN  \A wide \in BOOLEAN, call \in {"query", "plan"} :
            LET v == FftVendorArgs(p, R, wide, call)
            IN  /\ v.istride = Stride(i, R - 1)
                /\ v.ostride = Stride(c.o, R - 1)
                /\ v.inembed[q] = Size(i, R - 1)
                /\ v.onembed[q] = Size(c.o, R - 1)
                /\ v.idist = p.idist /\ v.odist = p.odist

\* C32: for every factorization family, a nonzero info value left by a
\* factorization call is read back and makes the dispatch fail with a solver
\* error.
C32_NonzeroInfoFailsDispatch ==
  \A t \in Threads :
    th[t].info # 0 => th[t].pc = "failed" /\ th[t].err = "info"

\* C33: the destruction of a plan whose constructor failed frees nothing but
\* the workspace the constructor had allocated, once: it hands the allocator
\* no pointer that is not registered and none the plan did not allocate.
C33_DestructorFreesOnlyOwnWorkspace ==
  \A t \in Threads :
    (th[t].stage = "construct" /\ th[t].pc = "failed") =>
      /\ th[t].dtor \in {"none", "freed"}
      /\ th[t].dtor = "freed" => th[t].vend.alloc >= 1

\* signal::dct called with the stream the caller passes: the FFT into the
\* temporary spectrum is fft(tmp, in), whose stream parameter takes its
\* default 0, and the post-multiply operator is run on the caller's stream
dct(stream) ==
  << [kind |-> "exec", src |-> "in", dst |-> "tmp", stream |-> 0],
     [kind |-> "run", src |-> "tmp", dst |-> "out", stream |-> stream] >>

\* C35: dct enqueues the FFT that fills the temporary spectrum and then the
\* post-multiply that reads it, both on the stream the caller passes, for
\* every stream a caller uses.
C35_DctWorkOnCallerStream ==
  \A k \in DOMAIN calls :
    LET ops == dct(calls[k].stream)
    IN  /\ Len(ops) = 2
        /\ ops[1].dst = ops[2].src
        /\ \A i \in 1..2 : ops[i].stream = calls[k].stream

\* C36: in every block of a transpose launch whose out has in's last two
\* sizes swapped, no tile cell and no element of out is written by two
\* threads, each element of out is the store of exactly one thread of one
\* block of the grid, a thread that stores to out read a tile cell that a
\* thread of its block had written before the barrier, the element stored at
\* out(.., y, x) is in(.., x, y), and when the block has finished every
\* in-bounds element of its tile of out is written.
C36_TransposeTileCorrect ==
  LET R == Len(launch.size)
      W == launch.size[R]
      H == launch.size[R - 1]
      b == launch.blockIdx
      Stores(y, x) ==
        { g \in ((0..((W + TILE_DIM - 1) \div TILE_DIM - 1))
                  \X (0..((H + TILE_DIM - 1) \div TILE_DIM - 1))
                  \X BlockThreads) :
            /\ g[1] * TILE_DIM + g[3][2] = y
            /\ g[2] * TILE_DIM + g[3][1] = x }
  IN  /\ \A cell \in DOMAIN shm_tile : Cardinality(shm_tile[cell].by) <= 1
      /\ \A e \in DOMAIN transposed :
           /\ Cardinality(transposed[e].by) <= 1
           /\ transposed[e].by # {} =>
                /\ transposed[e].src # {}
                /\ transposed[e].val =
                     [d \in 1..R |-> IF d = R THEN e[R - 1]
                                      ELSE IF d = R - 1 THEN e[R] ELSE e[d]]
           /\ (\A t \in BlockThreads : kth[t] = "done") =>
                /\ Cardinality(Stores(e[R - 1], e[R])) = 1
                /\ (e[R - 1] \div TILE_DIM = b.x /\ e[R] \div TILE_DIM = b.y)
                     => transposed[e].by # {}

\* a finished edge block of a rank-4 launch over a rectangular matrix whose
\* sizes are not multiples of the tile width: some threads of the block were
\* out of bounds, the others stored their element of out
C36_Witness ==
  /\ launch # << >>
  /\ Len(launch.size) = 4
  /\ launch.size[3] = TILE_DIM + 1 /\ launch.size[4] = TILE_DIM - 1
  /\ launch.blockIdx = [x |-> 0, y |-> 1, z |-> Batch + 1]
  /\ \A t \in BlockThreads : kth[t] = "done"
  /\ \E e \in DOMAIN transposed : transposed[e].by # {}
  /\ \E cell \in DOMAIN shm_tile : shm_tile[cell].by = {}

====
